---- MODULE Spec2Model ----
(***************************************************************************)
(* Service catalog and gateway registrar of the SOAP-to-REST proxy.        *)
(*                                                                         *)
(* The model follows the request handlers of src/app.py and the gateway    *)
(* client of src/gateway_client.py over the two tables of                  *)
(* src/database.py.  Every request runs in its own SQLAlchemy session      *)
(* (SessionLocal()), so a request is a process whose steps are its         *)
(* database round trips and its HTTP calls to the gateway; steps of        *)
(* different requests interleave freely.  The database is PostgreSQL:      *)
(* a commit is atomic, an uncommitted INSERT of a unique name makes a      *)
(* second INSERT of that name wait, and an UPDATE or DELETE of a row       *)
(* that is gone fails the commit (StaleDataError).                         *)
(*                                                                         *)
(* convert_wsdl is modelled from the body of the handler (app.py:149-256); *)
(* the require_auth wrapper of lines 57-76 is not part of this module.     *)
(* The other routes carry @require_auth above @app.route, so the view that *)
(* Flask registers is the undecorated handler: their actions do not read   *)
(* session['authenticated'].                                               *)
(*                                                                         *)
(* Spec is the catalog with the gateway registrar.  RuntimeSpec is the     *)
(* runtime translator of src/soap_translator.py (execute, the client       *)
(* cache, clear-cache) with the read-only routes, login and logout, over a *)
(* catalog that convert fills and delete empties.  NormalizeSpec applies   *)
(* _normalize_parameters to every value and schema of the bounds,          *)
(* DispatchSpec the handler's reading of the body followed by it,          *)
(* SerializeSpec _serialize_zeep_result to every value of the bounds, and  *)
(* TranslateSpec xsd_to_json_schema of src/wsdl_converter.py to the type   *)
(* graphs of the bounds (TranslateFairSpec: the call returns).             *)
(* SequentialSpec is RuntimeSpec with one request under way at a time.     *)
(* EmitSpec runs convert_wsdl on the WSDL services of the bounds: the      *)
(* operations it extracts, the OpenAPI paths it emits, the rows it stores. *)
(***************************************************************************)
EXTENDS Integers, Sequences, FiniteSets, TLC

(* ---------------------------------------------------------------------- *)
(* Bounds of the model                                                     *)
(* ---------------------------------------------------------------------- *)
MaxOps == 1          \* operations of a converted service: 0..MaxOps
MaxServers == 2      \* gateway server uuids in use at the same time

\* requests in flight at the same time
Threads == {"t1", "t2"}
Names == {"A"}

\* Pools of identifiers that the catalog cannot exhaust: at most one
\* service per name is committed and each request refers to one more; each
\* of these services and each request holds at most MaxOps tool ids.
MaxServices == Cardinality(Names) + Cardinality(Threads)
MaxTools == MaxOps * MaxServices

\* a <service_id> that no row ever has
UnknownId == MaxServices + 1

\* a <service_name> that no row ever has
UnknownName == "?"

\* clients alive at the same time: the cached one and one per request
MaxClients == Cardinality(Threads) + 1

\* property names of an input schema and keys of a JSON object
Keys == {"p", "q"}

\* SQL NULL / Python None of the nullable gateway_* columns
NULL == 0

VARIABLES
    services,      \* table services: id -> row (committed state)
    operations,    \* table operations: set of rows (committed state)
    pendName,      \* per request: the name its open transaction has INSERTed
    gwServers,     \* gateway: uuids of the virtual servers that exist there
    sessGateway,   \* session holds gateway_url and gateway_token
    pc,            \* per request: position in its handler
    req,           \* per request: route and parameters
    loaded,        \* per request: the Service object as its session loaded it
    toolIds,       \* per request: tool_ids of register_service
    srvUuid,       \* per request: server_uuid returned by POST /servers
    response,      \* the HTTP response the last step sent, if it sent one
    sessAuth,      \* session['authenticated']
    zeepClients,   \* soap_translator.zeep_clients: wsdl_url -> client
    cacheFile,     \* the SQLite file of soap_translator.cache exists
    wsdlCache,     \* table wsdl_cache: the wsdl_url of each row
    client,        \* per request: the client _get_zeep_client handed out
    result,        \* per request: json_result of execute_operation
    norm,          \* a call of _normalize_parameters: arguments and result
    ser,           \* a call of _serialize_zeep_result: argument and result
    xsd,           \* a call of xsd_to_json_schema: arguments and result
    conv           \* a run of convert_wsdl on a WSDL: source, ports and what it stores

dbVars == <<services, operations, pendName>>
gwVars == <<gwServers>>
cfgVars == <<sessGateway, sessAuth>>
pureVars == <<norm, ser, xsd, conv>>
rtVars == <<zeepClients, cacheFile, wsdlCache, client, result, pureVars>>
localVars == <<pc, req, loaded, toolIds, srvUuid>>
serverVars == <<dbVars, gwVars, cfgVars, localVars, response, zeepClients,
                cacheFile, wsdlCache, client, result>>
vars == <<services, operations, pendName, gwServers, sessGateway, pc, req,
          loaded, toolIds, srvUuid, response, sessAuth, zeepClients,
          cacheFile, wsdlCache, client, result, norm, ser,
          xsd, conv>>

(* ---------------------------------------------------------------------- *)
(* Rows, sessions and responses                                            *)
(* ---------------------------------------------------------------------- *)

\* The Service object of a session that has loaded nothing
NoService ==
    [id |-> NULL, name |-> "", registered |-> FALSE, uuid |-> NULL,
     endpoint |-> NULL, registered_at |-> NULL, ops |-> <<>>]

NoRequest == [op |-> "", sid |-> NULL, name |-> "", operation |-> NULL]

NoResponse ==
    [route |-> "", target |-> NULL, status |-> 0, error |-> "", body |-> <<>>]

\* Service(name=..., ...): the gateway_* columns take their defaults
NewServiceRow(name) ==
    [name |-> name, registered |-> FALSE, uuid |-> NULL, endpoint |-> NULL,
     registered_at |-> NULL]

\* Operation(service_id=service.id, name=op['name'], ...), one per operation
NewOperationRows(sid, n) ==
    {[service_id |-> sid, idx |-> i, tool |-> NULL] : i \in 1..n}

OperationsOf(sid) == {o \in operations : o.service_id = sid}

\* service.operations as a list: gateway_tool_id of each operation row of sid
OpTools(sid) ==
    [i \in 1..Cardinality(OperationsOf(sid)) |->
        (CHOOSE o \in OperationsOf(sid) : o.idx = i).tool]

\* db.query(Service).filter(Service.id == sid).first(), with its operations
LoadService(sid) ==
    IF sid \in DOMAIN services
    THEN [id |-> sid, name |-> services[sid].name,
          registered |-> services[sid].registered,
          uuid |-> services[sid].uuid,
          endpoint |-> services[sid].endpoint,
          registered_at |-> services[sid].registered_at,
          ops |-> OpTools(sid)]
    ELSE NoService

\* db.query(Service).filter(Service.name == name).first() finds a row
NameExists(name) == \E id \in DOMAIN services : services[id].name = name

\* mcp_endpoint = f"{gateway_url}/servers/{server_uuid}/mcp": one per uuid
McpEndpoint(u) == u

\* Config.gateway_configured() with the defaults of GATEWAY_URL, GATEWAY_TOKEN
EnvGateway == FALSE

\* is_gateway_configured(): environment or session
IsGatewayConfigured == EnvGateway \/ sessGateway

\* Service.to_dict()
ToDict(sid) ==
    [id |-> sid, name |-> services[sid].name,
     gateway_registered |-> services[sid].registered,
     gateway_server_uuid |-> services[sid].uuid,
     gateway_mcp_endpoint |-> services[sid].endpoint,
     operations_count |-> Cardinality(OperationsOf(sid))]

\* jsonify(...), status; target is the <service_id> of the request's URL
Response(route, target, status, error, body) ==
    [route |-> route, target |-> target, status |-> status, error |-> error,
     body |-> body]

\* The UPDATE a flush emits for a dirty object sets the attributes whose
\* value differs from the loaded one and leaves the other columns alone.
FlushUpdate(cur, snap, new) ==
    [f \in DOMAIN cur |-> IF new[f] # snap[f] THEN new[f] ELSE cur[f]]

(* ---------------------------------------------------------------------- *)
(* JSON values and SOAPTranslator._normalize_parameters                    *)
(* ---------------------------------------------------------------------- *)

\* A JSON value as request.json parses it: its type, its text if it is a
\* scalar, its members (key, value) if it is an object.
Json(type, text, members) == [type |-> type, text |-> text, members |-> members]

JsonNull == Json("null", "", {})

\* str, int, bool, None
JsonScalars ==
    {Json("string", "a", {}), Json("string", "", {}), Json("number", "7", {}),
     Json("number", "0", {}), Json("boolean", "true", {}),
     Json("boolean", "false", {}), JsonNull}

\* a list: neither a scalar nor a dict
JsonArrays == {Json("array", "[]", {})}

\* the values of the members of the objects
MemberValues == {Json("string", "a", {}), Json("number", "0", {})}

\* dicts with keys in Keys
JsonObjects ==
    {Json("object", "", {<<k, f[k]>> : k \in ks}) :
        <<ks, f>> \in {<<d, g>> \in (SUBSET Keys) \X [Keys -> MemberValues] :
                          \A k \in Keys \ d : g[k] = Json("number", "0", {})}}

JsonValues == JsonScalars \cup JsonArrays \cup JsonObjects

\* operation.input_schema: a JSON schema, with or without 'properties'
Schemas ==
    {[has_properties |-> h, properties |-> ps] :
        <<h, ps>> \in {<<b, q>> \in BOOLEAN \X (SUBSET Keys) : b \/ q = {}}}

\* properties = input_schema.get('properties', {})
SchemaProperties(input_schema) ==
    IF input_schema.has_properties THEN input_schema.properties ELSE {}

\* return value of _normalize_parameters, or the ValueError it raises
Normalized(value) == [raised |-> FALSE, value |-> value]
NormalizeValueError == [raised |-> TRUE, value |-> JsonNull]

\* variant: _normalize_parameters without its isinstance(parameters, dict)
\* test
NormalizeParametersNoDictTest(parameters, input_schema) ==
    LET properties == SchemaProperties(input_schema)
    IN IF Cardinality(properties) = 1
       THEN Normalized(Json("object", "",
                            {<<CHOOSE k \in properties : TRUE, parameters>>}))
       ELSE IF Cardinality(properties) > 1
            THEN NormalizeValueError
            ELSE Normalized(Json("object", "", {}))

\* _normalize_parameters(parameters, input_schema)
NormalizeParameters(parameters, input_schema) ==
    IF parameters.type = "object"
    THEN Normalized(parameters)
    ELSE LET properties == SchemaProperties(input_schema)
         IN IF Cardinality(properties) = 1
            THEN Normalized(Json("object", "",
                                 {<<CHOOSE k \in properties : TRUE, parameters>>}))
            ELSE IF Cardinality(properties) > 1
                 THEN NormalizeValueError
                 ELSE Normalized(Json("object", "", {}))

\* no call of _normalize_parameters is under way
(* ---------------------------------------------------------------------- *)
(* SOAPTranslator._serialize_zeep_result                                   *)
(* ---------------------------------------------------------------------- *)

\* The values zeep hands back and the JSON-serializable values made of
\* them, as records: kind is the Python type ("none", "str", "int",
\* "float", "bool", "list", "compound" for a zeep CompoundValue, "dict",
\* "opaque" for anything else, such as Decimal or datetime), text the
\* content of a scalar, items the items of a list in order, or the
\* key/value pairs of a compound value or dict in order (key "" in a list).
Value(kind, text, items) == [kind |-> kind, text |-> text, items |-> items]
Item(key, value) == [key |-> key, value |-> value]

\* the length of the longest list of the values
MaxItems == 2

ZeepScalars ==
    {Value("none", "", <<>>), Value("str", "a", <<>>), Value("str", "", <<>>),
     Value("int", "7", <<>>), Value("float", "1.5", <<>>),
     Value("bool", "true", <<>>), Value("opaque", "2024-01-01", <<>>)}

\* the lists of at most MaxItems items of a set of values
ListsOf(values) ==
    UNION {[1..n -> {Item("", v) : v \in values}] : n \in 0..MaxItems}

ZeepLists == {Value("list", "", items) : items \in ListsOf(ZeepScalars)}

\* nested values: a compound value with a scalar and a list field, lists
\* of lists and of compound values
ZeepCompounds ==
    {Value("compound", "", <<Item("number", n), Item("factors", l)>>) :
        n \in {Value("int", "7", <<>>)},
        l \in {Value("list", "", items) :
                  items \in ListsOf({Value("int", "7", <<>>),
                                     Value("opaque", "2024-01-01", <<>>)})}}

ZeepNested ==
    {Value("list", "", items) :
        items \in ListsOf({Value("list", "", <<>>),
                           Value("list", "", <<Item("", Value("str", "a", <<>>)),
                                               Item("", Value("none", "", <<>>))>>),
                           Value("dict", "", <<Item("k", Value("opaque", "2024-01-01", <<>>))>>)})
                   \ {<<>>}}

ZeepValues == ZeepScalars \cup ZeepLists \cup ZeepCompounds \cup ZeepNested

\* variant: without the branches for lists, compound values and dicts
SerializeZeepResultFlat(res) ==
    IF res.kind = "none" THEN Value("none", "", <<>>)
    ELSE IF res.kind \in {"str", "int", "float", "bool"} THEN res
    ELSE Value("str", res.text, <<>>)

\* _serialize_zeep_result(res)
RECURSIVE SerializeZeepResult(_)
SerializeZeepResult(res) ==
    IF res.kind = "none" THEN Value("none", "", <<>>)
    ELSE IF res.kind \in {"str", "int", "float", "bool"} THEN res
    ELSE IF res.kind = "list"
    THEN Value("list", "",
               [i \in 1..Len(res.items) |->
                   Item("", SerializeZeepResult(res.items[i].value))])
    ELSE IF res.kind \in {"compound", "dict"}
    THEN Value("dict", "",
               [i \in 1..Len(res.items) |->
                   Item(res.items[i].key,
                        SerializeZeepResult(res.items[i].value))])
    ELSE Value("str", res.text, <<>>)

\* no call of _serialize_zeep_result is under way
NoSerialize ==
    [result |-> Value("none", "", <<>>), json |-> Value("none", "", <<>>),
     called |-> FALSE]

(* ---------------------------------------------------------------------- *)
(* WSDLConverter.xsd_to_json_schema                                        *)
(* ---------------------------------------------------------------------- *)

\* A type name is a string, held as the sequence of its parts: the
\* delimiters "{", "}" and ":" are parts of their own.  NoName is the name
\* None of an anonymous type.
NoName == <<>>

\* max_occurs 'unbounded', and min_occurs None (the attribute holds no
\* number)
Unbounded == -1
None == -2

\* the longest element list of the root type
MaxElements == 2

\* XSD_TO_JSON_TYPE
XSD_TO_JSON_TYPE ==
    "string" :> "string" @@ "int" :> "integer" @@ "integer" :> "integer" @@
    "long" :> "integer" @@ "short" :> "integer" @@ "byte" :> "integer" @@
    "unsignedLong" :> "integer" @@ "unsignedInt" :> "integer" @@
    "unsignedShort" :> "integer" @@ "unsignedByte" :> "integer" @@
    "positiveInteger" :> "integer" @@ "nonNegativeInteger" :> "integer" @@
    "negativeInteger" :> "integer" @@ "nonPositiveInteger" :> "integer" @@
    "decimal" :> "number" @@ "float" :> "number" @@ "double" :> "number" @@
    "boolean" :> "boolean" @@ "date" :> "string" @@ "dateTime" :> "string" @@
    "time" :> "string" @@ "base64Binary" :> "string" @@
    "hexBinary" :> "string" @@ "anyURI" :> "string"

\* a zeep type object: kind "complex" has the attribute elements, kind
\* "list" the attribute item_type (the id of a type), kind "simple" neither
XsdType(name, kind, elements, item_type) ==
    [name |-> name, kind |-> kind, elements |-> elements,
     item_type |-> item_type]

\* an element of a complex type: (element_name, element_obj) with the
\* attributes of element_obj the translator or the schema language knows;
\* type is the id of the element's type
Element(name, min_occurs, max_occurs, nillable, type) ==
    [name |-> name, min_occurs |-> min_occurs, max_occurs |-> max_occurs,
     nillable |-> nillable, type |-> type]

\* a JSON Schema node: format "" and description <<>> are absent keys,
\* items is <<>> or holds the one schema of the items, properties holds
\* (name, schema) in insertion order; has_properties and has_required say
\* whether the keys are there
Schema(type, format, description, items, has_properties, properties, has_required, required) ==
    [type |-> type, format |-> format, description |-> description,
     items |-> items, has_properties |-> has_properties,
     properties |-> properties, has_required |-> has_required,
     required |-> required]

\* {"type": type}
TypeOnly(type) == Schema(type, "", <<>>, <<>>, FALSE, <<>>, FALSE, <<>>)

\* the parts of s after the last part sep: s.split(sep)[-1]
SplitLast(s, sep) ==
    LET at == {i \in 1..Len(s) : s[i] = sep}
        last == IF at = {} THEN 0 ELSE CHOOSE i \in at : \A j \in at : j <= i
    IN  SubSeq(s, last + 1, Len(s))

\* variant: without the branch for prefixed names
ResolveTypeNameClarkOnly(xsd_type) ==
    IF xsd_type.name = NoName THEN NoName
    ELSE IF xsd_type.name[1] = "{" THEN SplitLast(xsd_type.name, "}")
    ELSE xsd_type.name

\* _resolve_type_name
ResolveTypeName(xsd_type) ==
    IF xsd_type.name = NoName THEN NoName
    ELSE IF xsd_type.name[1] = "{" THEN SplitLast(xsd_type.name, "}")
    ELSE IF \E i \in 1..Len(xsd_type.name) : xsd_type.name[i] = ":"
    THEN SplitLast(xsd_type.name, ":")
    ELSE xsd_type.name

\* type_name and type_name in XSD_TO_JSON_TYPE
InTable(type_name) ==
    /\ Len(type_name) = 1
    /\ type_name[1] \in DOMAIN XSD_TO_JSON_TYPE

\* schema = {"type": XSD_TO_JSON_TYPE[type_name]}, with the format for
\* date, dateTime and time
SimpleSchema(type_name) ==
    [TypeOnly(XSD_TO_JSON_TYPE[type_name[1]]) EXCEPT
        !.format = IF type_name[1] \in {"date", "dateTime", "time"}
                   THEN type_name[1] ELSE ""]

\* variant: only an unbounded element is an array
IsArrayUnboundedOnly(max_occurs) ==
    max_occurs = None \/ max_occurs = Unbounded

\* max_occurs is None or max_occurs == 'unbounded' or
\* (isinstance(max_occurs, int) and max_occurs > 1)
IsArray(max_occurs) ==
    max_occurs = None \/ max_occurs = Unbounded \/ max_occurs > 1

\* _is_wrapper_list_type: (is_wrapper, inner_element), the element held in
\* a sequence that is empty for (False, None)
IsWrapperListType(xsd_type) ==
    IF /\ xsd_type.kind = "complex"
       /\ Len(xsd_type.elements) = 1
       /\ IsArray(xsd_type.elements[1].max_occurs)
    THEN [is_wrapper |-> TRUE, inner_element |-> xsd_type.elements]
    ELSE [is_wrapper |-> FALSE, inner_element |-> <<>>]

\* element_obj.is_optional of the zeep library: min_occurs == 0
IsOptional(element_obj) == element_obj.min_occurs = 0

\* variant: an element whose min_occurs is None is optional
IsRequiredNoneOptional(element_obj) ==
    element_obj.min_occurs # None /\ element_obj.min_occurs > 0

\* if min_occurs is None: min_occurs = 0 if is_optional else 1;
\* if min_occurs > 0: the element is required
IsRequired(element_obj) ==
    LET min_occurs ==
            IF element_obj.min_occurs = None
            THEN (IF IsOptional(element_obj) THEN 0 ELSE 1)
            ELSE element_obj.min_occurs
    IN  min_occurs > 0

\* the names schema['required'] has collected after the loop
RequiredNames(elements) ==
    LET required == SelectSeq(elements, IsRequired)
    IN  [i \in 1..Len(required) |-> required[i].name]

\* f"Circular reference to {type_name}"
CircularDescription(type_name) ==
    <<"Circular reference to ">>
        \o (IF type_name = NoName THEN <<"None">> ELSE type_name)

\* variant: the re-entered type is answered without the description
CircularReferenceBare(type_name) == TypeOnly("object")

\* {"type": "object", "description": f"Circular reference to {type_name}"}
CircularReference(type_name) ==
    [TypeOnly("object") EXCEPT !.description = CircularDescription(type_name)]

\* variant: the visited set is not the path: the complex types Node and
\* StringList count as visited wherever they are met
VisitEverything(visited, type_id) == visited \cup {type_id} \cup {2, 4}

\* visited = visited | {type_id}: a new set for the calls below this one
Visit(visited, type_id) == visited \cup {type_id}

\* {"type": "array", "items": items}
ArrayOf(items) == [TypeOnly("array") EXCEPT !.items = <<items>>]

\* xsd_to_json_schema(xsd_type, visited), the type given by its id in the
\* type graph types: id(xsd_type) is the id
RECURSIVE XsdToJsonSchema(_, _, _)
XsdToJsonSchema(types, type_id, visited) ==
    LET xsd_type == types[type_id]
        type_name == ResolveTypeName(xsd_type)
        wrapper == IsWrapperListType(xsd_type)
        onPath == Visit(visited, type_id)
        Property(element) ==
            [name |-> element.name,
             schema |->
                IF IsArray(element.max_occurs)
                THEN ArrayOf(XsdToJsonSchema(types, element.type, onPath))
                ELSE XsdToJsonSchema(types, element.type, onPath)]
    IN  IF InTable(type_name) THEN SimpleSchema(type_name)
        ELSE IF type_id \in visited THEN CircularReference(type_name)
        ELSE IF wrapper.is_wrapper
        THEN ArrayOf(XsdToJsonSchema(types, wrapper.inner_element[1].type,
                                     onPath))
        ELSE IF xsd_type.kind = "complex"
        THEN [TypeOnly("object") EXCEPT
                !.has_properties = TRUE,
                !.properties = [i \in 1..Len(xsd_type.elements) |->
                                   Property(xsd_type.elements[i])],
                !.has_required = RequiredNames(xsd_type.elements) # <<>>,
                !.required = RequiredNames(xsd_type.elements)]
        ELSE IF xsd_type.kind = "list"
        THEN ArrayOf(XsdToJsonSchema(types, xsd_type.item_type, onPath))
        ELSE TypeOnly("object")

\* The type graphs.  Type 1 is the root of the family; 2 is a complex type
\* with an element of type 1, 3 the primitive string, 4 a wrapper of
\* strings, 5 a list type of strings, 6 a simple type that is no primitive.
TypeIds == 1..6
ElementTypes == 1..4
ElementNames == <<"a", "b", "c">>

\* the elements at position i: the first two vary in every attribute, a
\* further one in whether it is required and whether its type is the root
Elements(i) ==
    IF i <= 2
    THEN {Element(ElementNames[i], min_occurs, max_occurs, nillable, type) :
            min_occurs \in {None, 0, 1}, max_occurs \in {1, 2, Unbounded},
            nillable \in BOOLEAN, type \in ElementTypes}
    ELSE {Element(ElementNames[i], min_occurs, 1, FALSE, type) :
            min_occurs \in {0, 1}, type \in {1, 3}}

\* the element lists of n elements, named by position
RECURSIVE ElementListsOf(_)
ElementListsOf(n) ==
    IF n = 0 THEN {<<>>}
    ELSE {Append(es, e) : es \in ElementListsOf(n - 1), e \in Elements(n)}

\* the element lists of at most max elements
ElementLists(max) == UNION {ElementListsOf(n) : n \in 0..max}

TypeGraph(root) ==
    [id \in TypeIds |->
        CASE id = 1 -> root
          [] id = 2 -> XsdType(<<"Node">>, "complex",
                               <<Element("next", 0, 1, FALSE, 1),
                                 Element("value", 1, 1, FALSE, 3)>>, NULL)
          [] id = 3 -> XsdType(<<"string">>, "simple", <<>>, NULL)
          [] id = 4 -> XsdType(<<"StringList">>, "complex",
                               <<Element("item", 0, Unbounded, FALSE, 3)>>,
                               NULL)
          [] id = 5 -> XsdType(<<"Tokens">>, "list", <<>>, 3)
          [] id = 6 -> XsdType(<<"custom">>, "simple", <<>>, NULL)]

\* the three notations of a name: local, {uri}local, prefix:local
Forms == {"local", "clark", "prefixed"}
TypeName(local, form) ==
    CASE form = "local" -> <<local>>
      [] form = "clark" ->
            <<"{", "http", ":", "//www.w3.org/2001/XMLSchema", "}", local>>
      [] form = "prefixed" -> <<"xs", ":", local>>

\* a call of xsd_to_json_schema(xsd_type) on the type of the id root in
\* the graph of the root type xsd_type; local and form tell how the name
\* of a simple root type was written
Translate(xsd_type, root, local, form) ==
    [xsd_type |-> xsd_type, root |-> root, local |-> local, form |-> form,
     schema |-> TypeOnly("object"), called |-> FALSE]

\* no call of xsd_to_json_schema is under way
NoTranslate ==
    Translate(XsdType(<<"Root">>, "complex", <<>>, NULL), 1, "", "local")

(* ---------------------------------------------------------------------- *)
(* WSDLConverter.convert and the rows of convert_wsdl                      *)
(* ---------------------------------------------------------------------- *)

MaxPorts == 2

\* the names of the operations of a binding, and of the ports of a service
OperationNames == {"Get", "Put"}
PortNames == <<"P1", "P2", "P3">>

\* wsdl_url of the form, and tmp.name of the NamedTemporaryFile
RemoteUrl == "http://host/service?wsdl"
TempPath == "/tmp/upload.wsdl"

\* a binding operation: its name in binding.all() and the types of
\* input.body and output.body (None: no body)
BindingOperation(name, input_body, output_body) ==
    [name |-> name, input_body |-> input_body, output_body |-> output_body]

\* extract_input_schema
ExtractInputSchema(binding_operation) ==
    IF binding_operation.input_body = None
    THEN Schema("object", "", <<>>, <<>>, TRUE, <<>>, FALSE, <<>>)
    ELSE XsdToJsonSchema(TypeGraph(XsdType(<<"Root">>, "complex", <<>>, NULL)),
                         binding_operation.input_body, {})

\* extract_output_schema
ExtractOutputSchema(binding_operation) ==
    IF binding_operation.output_body = None
    THEN TypeOnly("object")
    ELSE XsdToJsonSchema(TypeGraph(XsdType(<<"Root">>, "complex", <<>>, NULL)),
                         binding_operation.output_body, {})

\* operation_info (soap_action and documentation are copied through and
\* are left out)
OperationInfo(port_name, binding_operation) ==
    [name |-> binding_operation.name, port_name |-> port_name,
     input_schema |-> ExtractInputSchema(binding_operation),
     output_schema |-> ExtractOutputSchema(binding_operation)]

\* extract_operations: for each port, for each operation of its binding,
\* operations.append(operation_info)
RECURSIVE ExtractOperations(_)
ExtractOperations(ports) ==
    IF ports = <<>> THEN <<>>
    ELSE LET port == ports[Len(ports)]
         IN  ExtractOperations(SubSeq(ports, 1, Len(ports) - 1)) \o
                [i \in 1..Len(port.operations) |->
                    OperationInfo(port.name, port.operations[i])]

\* path = f"/soap/{service_name}/{operation['name']}"
Path(service_name, operation_name) == <<"soap", service_name, operation_name>>

\* the "post" object of a path: operationId, the schema of the request
\* body, the schema of the 200 response, x-soap-metadata.port_name
PathItem(operation) ==
    [operationId |-> operation.name,
     request_schema |-> operation.input_schema,
     response_schema |-> operation.output_schema,
     port_name |-> operation.port_name]

\* for operation in operations: openapi_spec["paths"][path] = {...}
RECURSIVE GeneratePaths(_, _)
GeneratePaths(service_name, operation_list) ==
    IF operation_list = <<>> THEN <<>>
    ELSE LET n == Len(operation_list)
             before == GeneratePaths(service_name, SubSeq(operation_list, 1, n - 1))
             path == Path(service_name, operation_list[n].name)
         IN  [p \in DOMAIN before \cup {path} |->
                 IF p = path THEN PathItem(operation_list[n]) ELSE before[p]]

\* generate_openapi_spec
GenerateOpenapiSpec(service_name, operation_list, wsdl_url) ==
    [title |-> service_name, wsdl_url |-> wsdl_url,
     paths |-> GeneratePaths(service_name, operation_list)]

\* WSDLConverter.convert
Convert(wsdl_path, service_name, ports) ==
    [openapi_spec |-> GenerateOpenapiSpec(service_name, ExtractOperations(ports),
                                          wsdl_path),
     service_name |-> service_name,
     operations |-> ExtractOperations(ports),
     wsdl_url |-> wsdl_path]

\* Service(name=..., wsdl_url=..., openapi_spec=...)
ServiceRecord(converted) ==
    [name |-> converted.service_name, wsdl_url |-> converted.wsdl_url,
     openapi_spec |-> converted.openapi_spec]

\* Operation(service_id=..., name=op['name'], input_schema=..., ...) for op
\* in result['operations']
OperationRecords(converted) ==
    [i \in 1..Len(converted.operations) |->
        [name |-> converted.operations[i].name,
         input_schema |-> converted.operations[i].input_schema,
         output_schema |-> converted.operations[i].output_schema]]

\* finally: if wsdl_file and wsdl_path and os.path.exists(wsdl_path):
\* os.unlink(wsdl_path)
CleanUp(files, wsdl_file, wsdl_path) ==
    IF wsdl_file /\ wsdl_path \in files THEN files \ {wsdl_path} ELSE files

\* a run of convert_wsdl: the source of the request ("file": wsdl_file,
\* "url": wsdl_url), the ports of the WSDL service, the rows it stores,
\* the operations_count of its response and the files that exist
ConvertRun(source, ports) ==
    [source |-> source, ports |-> ports, called |-> FALSE,
     service |-> ServiceRecord(Convert("", "", <<>>)),
     rows |-> <<>>, operations_count |-> 0, files |-> {}]

NoConvert == ConvertRun("url", <<>>)

\* the operations of a binding: each name at most once
PortOperationLists ==
    LET bodies == {<<3, 3>>, <<4, 3>>, <<None, None>>}
        ops == {BindingOperation(name, b[1], b[2]) :
                   name \in OperationNames, b \in bodies}
    IN  {<<>>} \cup {<<o>> : o \in ops}
           \cup {<<p[1], p[2]>> : p \in {q \in ops \X ops : q[1].name # q[2].name}}

\* the ports of a WSDL service
WsdlPorts(max) ==
    UNION {{[i \in 1..k |-> [name |-> PortNames[i], operations |-> f[i]]] :
               f \in [1..k -> PortOperationLists]} : k \in 1..max}

\* no json_result: the SOAP operation has not answered
NoResult == Json("none", "", {})

\* what _serialize_zeep_result returns for the answers of the upstream
\* service
SoapResults == {JsonNull, Json("string", "a", {})}

NoCall ==
    [body |-> JsonNull, stage |-> "parameters", parameters |-> JsonNull,
     input_schema |-> [has_properties |-> FALSE, properties |-> {}],
     result |-> NormalizeValueError, called |-> FALSE]

\* bool(v) is False: "", 0, False, None, [] and {}
Falsy(v) ==
    \/ v.type = "null"
    \/ v.type = "string" /\ v.text = ""
    \/ v.type = "number" /\ v.text = "0"
    \/ v.type = "boolean" /\ v.text = "false"
    \/ v.type = "array" /\ v.text = "[]"
    \/ v.type = "object" /\ v.members = {}

\* parameters = request.json or {}
RequestParameters(body) == IF Falsy(body) THEN Json("object", "", {}) ELSE body

\* the server after start: empty catalog, no request, empty client cache
ServerInit ==
    /\ sessAuth = FALSE
    /\ zeepClients = <<>>
    /\ cacheFile = TRUE
    /\ wsdlCache = {}
    /\ client = [t \in Threads |-> NULL]
    /\ result = [t \in Threads |-> NoResult]
    /\ services = <<>>
    /\ operations = {}
    /\ pendName = [t \in Threads |-> ""]
    /\ gwServers = {}
    /\ sessGateway = FALSE
    /\ pc = [t \in Threads |-> "idle"]
    /\ req = [t \in Threads |-> NoRequest]
    /\ loaded = [t \in Threads |-> NoService]
    /\ toolIds = [t \in Threads |-> <<>>]
    /\ srvUuid = [t \in Threads |-> NULL]
    /\ response = NoResponse

Init ==
    /\ ServerInit
    /\ norm = NoCall
    /\ ser = NoSerialize
    /\ xsd = NoTranslate
    /\ conv = NoConvert

\* Identifiers are opaque and never repeat (uuid4 for service rows, the
\* gateway's ids for tools and servers): a new one is any value that no
\* row, no gateway object and no session refers to.
Range(f) == {f[i] : i \in DOMAIN f}

FreeServiceIds ==
    (1..MaxServices) \ (DOMAIN services
                         \cup {req[t].sid : t \in Threads}
                         \cup {loaded[t].id : t \in Threads})

FreeToolIds ==
    (1..MaxTools) \ ({o.tool : o \in operations}
                      \cup UNION {Range(toolIds[t]) : t \in Threads}
                      \cup UNION {Range(loaded[t].ops) : t \in Threads})

FreeServerIds ==
    (1..MaxServers) \ (gwServers
                        \cup {services[s].uuid : s \in DOMAIN services}
                        \cup {srvUuid[t] : t \in Threads}
                        \cup {loaded[t].uuid : t \in Threads})

Fresh(free) == CHOOSE i \in free : \A j \in free : i <= j

\* a step inside a handler sends nothing
Silent == response' = NoResponse

\* return jsonify(...), after finally: db.close() has dropped the session
\* and what it held; the worker is free for the next request
Return(t, r) ==
    /\ response' = r
    /\ pc' = [pc EXCEPT ![t] = "idle"]
    /\ pendName' = [pendName EXCEPT ![t] = ""]
    /\ req' = [req EXCEPT ![t] = NoRequest]
    /\ loaded' = [loaded EXCEPT ![t] = NoService]
    /\ toolIds' = [toolIds EXCEPT ![t] = <<>>]
    /\ srvUuid' = [srvUuid EXCEPT ![t] = NULL]

(* ---------------------------------------------------------------------- *)
(* POST /api/convert                                                       *)
(* ---------------------------------------------------------------------- *)

\* neither wsdl_file nor wsdl_url: 400 before a session is opened
ConvertNoSource(t) ==
    /\ pc[t] = "idle"
    /\ Return(t, Response("convert", NULL, 400, "no wsdl source", <<>>))
    /\ UNCHANGED <<services, operations>>
    /\ UNCHANGED <<gwVars, cfgVars, rtVars>>

\* converter.convert(...) raises: except Exception, rollback, 500
ConvertWsdlError(t) ==
    /\ pc[t] = "idle"
    /\ Return(t, Response("convert", NULL, 500, "wsdl", <<>>))
    /\ UNCHANGED <<services, operations>>
    /\ UNCHANGED <<gwVars, cfgVars, rtVars>>

\* variant: the existence check of convert_wsdl never finds a row
ConvertCheckExistsNever(name) == FALSE

\* existing = db.query(Service).filter(Service.name == ...).first()
ConvertCheckExists(name) == NameExists(name)

\* converter.convert(...) returns the service name; if existing: return 409
ConvertConflict(t, name) ==
    /\ pc[t] = "idle"
    /\ ConvertCheckExists(name)
    /\ Return(t, Response("convert", NULL, 409, "already exists",
                          [service_name |-> name]))
    /\ UNCHANGED <<services, operations>>
    /\ UNCHANGED <<gwVars, cfgVars, rtVars>>

\* converter.convert(...) returns the service name; no row has it
ConvertCheck(t, name) ==
    /\ pc[t] = "idle"
    /\ ~ConvertCheckExists(name)
    /\ req' = [req EXCEPT ![t] = [NoRequest EXCEPT !.op = "convert", !.name = name]]
    /\ pc' = [pc EXCEPT ![t] = "cv_flush"]
    /\ UNCHANGED <<dbVars, gwVars, cfgVars, rtVars, loaded, toolIds, srvUuid>>
    /\ Silent

\* variant: services.name carries no unique index
UniqueNameFreeNoIndex(t, name) == TRUE

\* The unique index on services.name: an INSERT waits while another open
\* transaction holds an uncommitted row of the same name.
UniqueNameFree(t, name) == \A u \in Threads \ {t} : pendName[u] # name

\* db.add(service); db.flush(): the INSERT passes the unique index
ConvertFlush(t) ==
    /\ pc[t] = "cv_flush"
    /\ UniqueNameFree(t, req[t].name)
    /\ ~NameExists(req[t].name)
    /\ FreeServiceIds # {}
    /\ pendName' = [pendName EXCEPT ![t] = req[t].name]
    /\ req' = [req EXCEPT ![t].sid = Fresh(FreeServiceIds)]
    /\ pc' = [pc EXCEPT ![t] = "cv_tx"]
    /\ UNCHANGED <<services, operations, gwVars, cfgVars, rtVars, loaded, toolIds,
                   srvUuid>>
    /\ Silent

\* db.flush() raises IntegrityError: rollback, 409
ConvertFlushIntegrity(t) ==
    /\ pc[t] = "cv_flush"
    /\ UniqueNameFree(t, req[t].name)
    /\ NameExists(req[t].name)
    /\ Return(t, Response("convert", NULL, 409, "integrity", <<>>))
    /\ UNCHANGED <<services, operations>>
    /\ UNCHANGED <<gwVars, cfgVars, rtVars>>

\* variant: the except branches of convert_wsdl answer without db.rollback()
\* and the flushed service row stays
ConvertTxErrorNoRollback(t, status) ==
    /\ pc[t] = "cv_tx"
    /\ services' = services @@ (req[t].sid :> NewServiceRow(req[t].name))
    /\ operations' = operations
    /\ Return(t, Response("convert", NULL, status,
                          IF status = 409 THEN "integrity" ELSE "transaction", <<>>))
    /\ UNCHANGED <<gwVars, cfgVars, rtVars>>

\* an exception while the operation rows are built, or raised by
\* db.commit(): IntegrityError gives 409, any other gives 500; both roll back
ConvertTxError(t, status) ==
    /\ pc[t] = "cv_tx"
    /\ Return(t, Response("convert", NULL, status,
                          IF status = 409 THEN "integrity" ELSE "transaction", <<>>))
    /\ UNCHANGED <<services, operations>>
    /\ UNCHANGED <<gwVars, cfgVars, rtVars>>

\* the operation rows db.commit() writes with the service row
ConvertCommitRows(sid, n) == NewOperationRows(sid, n)

\* response_data of convert_wsdl
ConvertBody(sid, registered, gwError) ==
    [service_id |-> sid, gateway_registered |-> registered,
     gateway_error |-> gwError]

\* for op in result['operations']: db.add(operation); db.commit().
\* n is len(result['operations']).
ConvertCommit(t, n) ==
    /\ pc[t] = "cv_tx"
    /\ services' = services @@ (req[t].sid :> NewServiceRow(req[t].name))
    /\ operations' = operations \cup ConvertCommitRows(req[t].sid, n)
    /\ pendName' = [pendName EXCEPT ![t] = ""]
    /\ pc' = [pc EXCEPT ![t] = "cv_refresh"]
    /\ UNCHANGED <<gwVars, cfgVars, rtVars, req, loaded, toolIds, srvUuid>>
    /\ Silent

\* db.refresh(service) raises (the row is gone, or the database fails):
\* except Exception, rollback of nothing, 500
ConvertRefreshError(t) ==
    /\ pc[t] = "cv_refresh"
    /\ Return(t, Response("convert", NULL, 500, "refresh", <<>>))
    /\ UNCHANGED <<services, operations>>
    /\ UNCHANGED <<gwVars, cfgVars, rtVars>>

\* db.refresh(service); not (auto_register and is_gateway_configured()): 200
ConvertRefresh(t, auto) ==
    /\ pc[t] = "cv_refresh"
    /\ req[t].sid \in DOMAIN services
    /\ ~(auto /\ IsGatewayConfigured)
    /\ Return(t, Response("convert", NULL, 200, "",
                          ConvertBody(req[t].sid, FALSE, FALSE)))
    /\ UNCHANGED <<services, operations>>
    /\ UNCHANGED <<gwVars, cfgVars, rtVars>>

\* db.refresh(service); auto_register and is_gateway_configured():
\* gateway_client.register_service(service, ...) starts its tool loop
ConvertAutoRegister(t) ==
    /\ pc[t] = "cv_refresh"
    /\ req[t].sid \in DOMAIN services
    /\ IsGatewayConfigured
    /\ ~services[req[t].sid].registered
    /\ loaded' = [loaded EXCEPT ![t] = LoadService(req[t].sid)]
    /\ pc' = [pc EXCEPT ![t] = "reg_gateway"]
    /\ UNCHANGED <<dbVars, gwVars, cfgVars, rtVars, req, toolIds, srvUuid>>
    /\ Silent

\* auto_register and is_gateway_configured(), and register_service raises
\* ValueError (the refreshed row is registered): the inner except Exception
\* records gateway_error, 200
ConvertAutoAlready(t) ==
    /\ pc[t] = "cv_refresh"
    /\ req[t].sid \in DOMAIN services
    /\ IsGatewayConfigured
    /\ services[req[t].sid].registered
    /\ Return(t, Response("convert", NULL, 200, "",
                          ConvertBody(req[t].sid, FALSE, TRUE)))
    /\ UNCHANGED <<services, operations>>
    /\ UNCHANGED <<gwVars, cfgVars, rtVars>>

(* ---------------------------------------------------------------------- *)
(* GatewayClient.register_service, called by register_with_gateway and by  *)
(* the auto-registration of convert_wsdl                                   *)
(* ---------------------------------------------------------------------- *)

\* variant: the convert whose registration failed reports gateway_registered
RegisterFailedReportsRegistered(t, e) ==
    IF req[t].op = "register"
    THEN Return(t, Response("register", req[t].sid, 500, e, <<>>))
    ELSE Return(t, Response("convert", NULL, 200, "",
                            ConvertBody(req[t].sid, TRUE, TRUE)))

\* An exception e leaves register_service.  register_with_gateway: except
\* Exception, db.rollback(), 500 with {'error': str(e)}.  convert_wsdl: the
\* inner except Exception records gateway_error and the response stays 200.
RegisterFailed(t, e) ==
    IF req[t].op = "register"
    THEN Return(t, Response("register", req[t].sid, 500, e, <<>>))
    ELSE Return(t, Response("convert", NULL, 200, "",
                            ConvertBody(req[t].sid, FALSE, TRUE)))

\* variant: register_with_gateway and register_service without their
\* gateway_registered checks
RegisterCheckRegisteredNever(sid) == FALSE

\* if service.gateway_registered: the 409 of register_with_gateway
RegisterCheckRegistered(sid) == services[sid].registered

RegisterNotConfigured(t, sid) ==
    /\ pc[t] = "idle"
    /\ ~IsGatewayConfigured
    /\ Return(t, Response("register", sid, 400, "not configured", <<>>))
    /\ UNCHANGED <<services, operations>>
    /\ UNCHANGED <<gwVars, cfgVars, rtVars>>

RegisterNotFound(t, sid) ==
    /\ pc[t] = "idle"
    /\ IsGatewayConfigured
    /\ sid \notin DOMAIN services
    /\ Return(t, Response("register", sid, 404, "not found", <<>>))
    /\ UNCHANGED <<services, operations>>
    /\ UNCHANGED <<gwVars, cfgVars, rtVars>>

RegisterAlready(t, sid) ==
    /\ pc[t] = "idle"
    /\ IsGatewayConfigured
    /\ sid \in DOMAIN services
    /\ RegisterCheckRegistered(sid)
    /\ Return(t, Response("register", sid, 409, "already registered", <<>>))
    /\ UNCHANGED <<services, operations>>
    /\ UNCHANGED <<gwVars, cfgVars, rtVars>>

\* the service is loaded unregistered: register_service starts its tool loop
RegisterLoad(t, sid) ==
    /\ pc[t] = "idle"
    /\ IsGatewayConfigured
    /\ sid \in DOMAIN services
    /\ ~RegisterCheckRegistered(sid)
    /\ req' = [req EXCEPT ![t] = [NoRequest EXCEPT !.op = "register", !.sid = sid]]
    /\ loaded' = [loaded EXCEPT ![t] = LoadService(sid)]
    /\ pc' = [pc EXCEPT ![t] = "reg_gateway"]
    /\ UNCHANGED <<dbVars, gwVars, cfgVars, rtVars, toolIds, srvUuid>>
    /\ Silent

\* _register_tool: POST /tools answers with a tool id
RegisterTool(t) ==
    /\ pc[t] = "reg_gateway"
    /\ Len(toolIds[t]) < Len(loaded[t].ops)
    /\ FreeToolIds # {}
    /\ toolIds' = [toolIds EXCEPT ![t] = Append(@, Fresh(FreeToolIds))]
    /\ UNCHANGED <<dbVars, gwVars, cfgVars, rtVars, pc, req, loaded, srvUuid>>
    /\ Silent

\* _register_tool raises (transport error, HTTP error, no id in the answer)
RegisterToolFail(t) ==
    /\ pc[t] = "reg_gateway"
    /\ Len(toolIds[t]) < Len(loaded[t].ops)
    /\ RegisterFailed(t, "tool")
    /\ UNCHANGED <<services, operations>>
    /\ UNCHANGED <<gwVars, cfgVars, rtVars>>

\* variant: POST /servers is sent without waiting for the tool ids
RegisterServerEarly(t) ==
    /\ pc[t] = "reg_gateway"
    /\ Len(toolIds[t]) <= Len(loaded[t].ops)
    /\ FreeServerIds # {}
    /\ srvUuid' = [srvUuid EXCEPT ![t] = Fresh(FreeServerIds)]
    /\ gwServers' = gwServers \cup {Fresh(FreeServerIds)}
    /\ pc' = [pc EXCEPT ![t] = "reg_commit"]
    /\ UNCHANGED <<dbVars, cfgVars, rtVars, req, loaded, toolIds>>
    /\ Silent

\* _create_virtual_server: POST /servers answers with a server uuid
RegisterServer(t) ==
    /\ pc[t] = "reg_gateway"
    /\ Len(toolIds[t]) = Len(loaded[t].ops)
    /\ FreeServerIds # {}
    /\ srvUuid' = [srvUuid EXCEPT ![t] = Fresh(FreeServerIds)]
    /\ gwServers' = gwServers \cup {Fresh(FreeServerIds)}
    /\ pc' = [pc EXCEPT ![t] = "reg_commit"]
    /\ UNCHANGED <<dbVars, cfgVars, rtVars, req, loaded, toolIds>>
    /\ Silent

\* _create_virtual_server raises
RegisterServerFail(t) ==
    /\ pc[t] = "reg_gateway"
    /\ Len(toolIds[t]) = Len(loaded[t].ops)
    /\ RegisterFailed(t, "server")
    /\ UNCHANGED <<services, operations>>
    /\ UNCHANGED <<gwVars, cfgVars, rtVars>>

\* variant: register_service does not set gateway_mcp_endpoint
RegisteredBindingNoEndpoint(row, u) ==
    [row EXCEPT !.registered = TRUE, !.uuid = u, !.registered_at = 1]

\* service.gateway_registered = True; service.gateway_server_uuid = ...;
\* service.gateway_mcp_endpoint = ...; service.gateway_registered_at = ...
RegisteredBinding(row, u) ==
    [row EXCEPT !.registered = TRUE, !.uuid = u, !.endpoint = McpEndpoint(u),
                !.registered_at = 1]

\* the row of the service after the commit of register_service
RegisterRow(t) ==
    LET snap == [f \in DOMAIN services[loaded[t].id] |-> loaded[t][f]]
    IN FlushUpdate(services[loaded[t].id], snap,
                   RegisteredBinding(snap, srvUuid[t]))

\* operation.gateway_tool_id = tool_id, for each loaded operation
RegisterOperationRows(t) ==
    {IF o.service_id = loaded[t].id /\ o.idx \in DOMAIN toolIds[t]
        /\ toolIds[t][o.idx] # loaded[t].ops[o.idx]
     THEN [o EXCEPT !.tool = toolIds[t][o.idx]]
     ELSE o : o \in operations}

\* db_session.commit() of register_service, and the 200 of the caller
RegisterCommit(t) ==
    /\ pc[t] = "reg_commit"
    /\ loaded[t].id \in DOMAIN services
    /\ services' = [services EXCEPT ![loaded[t].id] = RegisterRow(t)]
    /\ operations' = RegisterOperationRows(t)
    /\ Return(t, IF req[t].op = "register"
                 THEN Response("register", req[t].sid, 200, "",
                               [server_uuid |-> srvUuid[t],
                                mcp_endpoint |-> McpEndpoint(srvUuid[t]),
                                tools_registered |-> Len(toolIds[t])])
                 ELSE Response("convert", NULL, 200, "",
                               ConvertBody(req[t].sid, TRUE, FALSE)))
    /\ UNCHANGED <<gwVars, cfgVars, rtVars>>

\* db_session.commit() raises: the row was deleted meanwhile
\* (StaleDataError), or the database fails
RegisterCommitError(t) ==
    /\ pc[t] = "reg_commit"
    /\ RegisterFailed(t, "commit")
    /\ UNCHANGED <<services, operations>>
    /\ UNCHANGED <<gwVars, cfgVars, rtVars>>

(* ---------------------------------------------------------------------- *)
(* GatewayClient.unregister_service, called by unregister_from_gateway and *)
(* by delete_service                                                       *)
(* ---------------------------------------------------------------------- *)

\* variant: unregister_from_gateway and unregister_service without their
\* gateway_registered checks
UnregisterCheckNotRegisteredNever(sid) == FALSE

\* if not service.gateway_registered: the 409 of unregister_from_gateway
UnregisterCheckNotRegistered(sid) == ~services[sid].registered

UnregisterNotConfigured(t, sid) ==
    /\ pc[t] = "idle"
    /\ ~IsGatewayConfigured
    /\ Return(t, Response("unregister", sid, 400, "not configured", <<>>))
    /\ UNCHANGED <<services, operations>>
    /\ UNCHANGED <<gwVars, cfgVars, rtVars>>

UnregisterNotFound(t, sid) ==
    /\ pc[t] = "idle"
    /\ IsGatewayConfigured
    /\ sid \notin DOMAIN services
    /\ Return(t, Response("unregister", sid, 404, "not found", <<>>))
    /\ UNCHANGED <<services, operations>>
    /\ UNCHANGED <<gwVars, cfgVars, rtVars>>

UnregisterNotRegistered(t, sid) ==
    /\ pc[t] = "idle"
    /\ IsGatewayConfigured
    /\ sid \in DOMAIN services
    /\ UnregisterCheckNotRegistered(sid)
    /\ Return(t, Response("unregister", sid, 409, "not registered", <<>>))
    /\ UNCHANGED <<services, operations>>
    /\ UNCHANGED <<gwVars, cfgVars, rtVars>>

UnregisterLoad(t, sid) ==
    /\ pc[t] = "idle"
    /\ IsGatewayConfigured
    /\ sid \in DOMAIN services
    /\ ~UnregisterCheckNotRegistered(sid)
    /\ req' = [req EXCEPT ![t] = [NoRequest EXCEPT !.op = "unregister", !.sid = sid]]
    /\ loaded' = [loaded EXCEPT ![t] = LoadService(sid)]
    /\ pc' = [pc EXCEPT ![t] = "ur_gateway"]
    /\ UNCHANGED <<dbVars, gwVars, cfgVars, rtVars, toolIds, srvUuid>>
    /\ Silent

\* the gateway after DELETE /servers/{uuid}
GatewayDeleteServer(u) == gwServers' = gwServers \ {u}

\* if service.gateway_server_uuid: requests.delete(...) answers 2xx
UnregisterDelete(t) ==
    /\ pc[t] = "ur_gateway"
    /\ IF loaded[t].uuid # NULL
       THEN GatewayDeleteServer(loaded[t].uuid)
       ELSE UNCHANGED gwServers
    /\ pc' = [pc EXCEPT ![t] = "ur_commit"]
    /\ UNCHANGED <<dbVars, cfgVars, rtVars, req, loaded, toolIds, srvUuid>>
    /\ Silent

\* variant: unregister_service swallows the failure of requests.delete(...)
\* and goes on to clear the binding
UnregisterDeleteFailSwallowed(t) ==
    /\ pc[t] = "ur_gateway"
    /\ loaded[t].uuid # NULL
    /\ pc' = [pc EXCEPT ![t] = "ur_commit"]
    /\ UNCHANGED <<dbVars, gwVars, cfgVars, rtVars, req, loaded, toolIds, srvUuid>>
    /\ Silent

\* requests.delete(...) raises.  unregister_from_gateway: except Exception,
\* rollback, 500.  delete_service: the inner except Exception logs it and
\* the handler goes on to db.delete(service).
UnregisterDeleteFail(t) ==
    /\ pc[t] = "ur_gateway"
    /\ loaded[t].uuid # NULL
    /\ IF req[t].op = "unregister"
       THEN Return(t, Response("unregister", req[t].sid, 500, "delete", <<>>))
       ELSE /\ pc' = [pc EXCEPT ![t] = "dl_commit"]
            /\ UNCHANGED <<pendName, req, loaded, toolIds, srvUuid>>
            /\ Silent
    /\ UNCHANGED <<services, operations>>
    /\ UNCHANGED <<gwVars, cfgVars, rtVars>>

\* variant: unregister_service leaves gateway_mcp_endpoint as it is
ClearedBindingKeepsEndpoint(row) ==
    [row EXCEPT !.registered = FALSE, !.uuid = NULL, !.registered_at = NULL]

\* service.gateway_registered = False; the other gateway_* attributes = None
ClearedBinding(row) ==
    [row EXCEPT !.registered = FALSE, !.uuid = NULL, !.endpoint = NULL,
                !.registered_at = NULL]

\* the row of the service after the commit of unregister_service
UnregisterRow(t) ==
    LET snap == [f \in DOMAIN services[loaded[t].id] |-> loaded[t][f]]
    IN FlushUpdate(services[loaded[t].id], snap, ClearedBinding(snap))

\* for operation in service.operations: operation.gateway_tool_id = None
\* (service.operations is loaded here, on first use)
UnregisterOperationRows(t) ==
    {IF o.service_id = loaded[t].id THEN [o EXCEPT !.tool = NULL] ELSE o :
        o \in operations}

\* db_session.commit() of unregister_service
UnregisterCommit(t) ==
    /\ pc[t] = "ur_commit"
    /\ loaded[t].id \in DOMAIN services
    /\ services' = [services EXCEPT ![loaded[t].id] = UnregisterRow(t)]
    /\ operations' = UnregisterOperationRows(t)
    /\ IF req[t].op = "unregister"
       THEN Return(t, Response("unregister", req[t].sid, 200, "", <<>>))
       ELSE /\ pc' = [pc EXCEPT ![t] = "dl_commit"]
            /\ UNCHANGED <<pendName, req, loaded, toolIds, srvUuid>>
            /\ Silent
    /\ UNCHANGED <<gwVars, cfgVars, rtVars>>

\* db_session.commit() raises (the row is gone, or the database fails)
UnregisterCommitError(t) ==
    /\ pc[t] = "ur_commit"
    /\ IF req[t].op = "unregister"
       THEN Return(t, Response("unregister", req[t].sid, 500, "commit", <<>>))
       ELSE /\ pc' = [pc EXCEPT ![t] = "dl_commit"]
            /\ UNCHANGED <<pendName, req, loaded, toolIds, srvUuid>>
            /\ Silent
    /\ UNCHANGED <<services, operations>>
    /\ UNCHANGED <<gwVars, cfgVars, rtVars>>

(* ---------------------------------------------------------------------- *)
(* DELETE /api/services/<id>                                               *)
(* ---------------------------------------------------------------------- *)

DeleteNotFound(t, sid) ==
    /\ pc[t] = "idle"
    /\ sid \notin DOMAIN services
    /\ Return(t, Response("delete", sid, 404, "not found", <<>>))
    /\ UNCHANGED <<services, operations>>
    /\ UNCHANGED <<gwVars, cfgVars, rtVars>>

\* if service.gateway_registered and is_gateway_configured(): unregister first
DeleteUnregisterFirst(sid) == services[sid].registered /\ IsGatewayConfigured

DeleteLoad(t, sid) ==
    /\ pc[t] = "idle"
    /\ sid \in DOMAIN services
    /\ req' = [req EXCEPT ![t] = [NoRequest EXCEPT !.op = "delete", !.sid = sid]]
    /\ loaded' = [loaded EXCEPT ![t] = LoadService(sid)]
    /\ pc' = [pc EXCEPT ![t] =
                IF DeleteUnregisterFirst(sid) THEN "ur_gateway" ELSE "dl_commit"]
    /\ UNCHANGED <<dbVars, gwVars, cfgVars, rtVars, toolIds, srvUuid>>
    /\ Silent

\* variant: the relationship and the foreign key carry no delete cascade
DeleteCommitNoCascade(t) ==
    /\ pc[t] = "dl_commit"
    /\ loaded[t].id \in DOMAIN services
    /\ services' = [id \in DOMAIN services \ {loaded[t].id} |-> services[id]]
    /\ operations' = operations
    /\ Return(t, Response("delete", req[t].sid, 200, "", <<>>))
    /\ UNCHANGED <<gwVars, cfgVars, rtVars>>

\* db.delete(service); db.commit(): the row and, by cascade, its operations
DeleteCommit(t) ==
    /\ pc[t] = "dl_commit"
    /\ loaded[t].id \in DOMAIN services
    /\ services' = [id \in DOMAIN services \ {loaded[t].id} |-> services[id]]
    /\ operations' = {o \in operations : o.service_id # loaded[t].id}
    /\ Return(t, Response("delete", req[t].sid, 200, "", <<>>))
    /\ UNCHANGED <<gwVars, cfgVars, rtVars>>

\* db.commit() raises (the row is gone, or the database fails): rollback, 500
DeleteCommitError(t) ==
    /\ pc[t] = "dl_commit"
    /\ Return(t, Response("delete", req[t].sid, 500, "commit", <<>>))
    /\ UNCHANGED <<services, operations>>
    /\ UNCHANGED <<gwVars, cfgVars, rtVars>>

(* ---------------------------------------------------------------------- *)
(* GET /api/services, GET /api/services/<id>, gateway configuration        *)
(* ---------------------------------------------------------------------- *)

ListServices(t) ==
    /\ pc[t] = "idle"
    /\ Return(t, Response("list", NULL, 200, "",
                          [services |-> {ToDict(id) : id \in DOMAIN services}]))
    /\ UNCHANGED <<services, operations>>
    /\ UNCHANGED <<gwVars, cfgVars, rtVars>>

GetService(t, sid) ==
    /\ pc[t] = "idle"
    /\ Return(t, IF sid \in DOMAIN services
                 THEN Response("get", sid, 200, "", [services |-> {ToDict(sid)}])
                 ELSE Response("get", sid, 404, "not found", <<>>))
    /\ UNCHANGED <<services, operations>>
    /\ UNCHANGED <<gwVars, cfgVars, rtVars>>

\* POST /api/gateway/config with both values: the session holds them
SaveGatewayConfig ==
    /\ ~sessGateway
    /\ sessGateway' = TRUE
    /\ UNCHANGED <<dbVars, gwVars, localVars, sessAuth, rtVars>>
    /\ Silent

\* GET /logout: session.clear()
Logout ==
    /\ sessGateway \/ sessAuth
    /\ sessGateway' = FALSE
    /\ sessAuth' = FALSE
    /\ UNCHANGED <<dbVars, gwVars, localVars, rtVars>>
    /\ Silent

(* ---------------------------------------------------------------------- *)
(* POST /soap/<service_name>/<operation_name>: SOAPTranslator               *)
(* ---------------------------------------------------------------------- *)

transVars == <<zeepClients, cacheFile, wsdlCache>>

\* service.wsdl_url: the source the service was converted from, one per name
WsdlUrl(service) == <<"wsdl", service.name>>

\* a new Client object is one that neither the map nor a request refers to
FreeClientIds ==
    (1..MaxClients) \ (Range(zeepClients) \cup {client[t] : t \in Threads})

\* the handler returns: its session and its local client are dropped
ExecReturn(t, r) ==
    /\ Return(t, r)
    /\ client' = [client EXCEPT ![t] = NULL]
    /\ result' = [result EXCEPT ![t] = NoResult]

\* _get_service returns None: ValueError, 404
ExecServiceUnknown(t, name) ==
    /\ pc[t] = "idle"
    /\ ~NameExists(name)
    /\ ExecReturn(t, Response("execute", NULL, 404, "service not found", <<>>))
    /\ UNCHANGED <<services, operations, gwVars, cfgVars, transVars, pureVars>>

\* service = self._get_service(service_name): the row, without operations;
\* i stands for the <operation_name> of the request
ExecGetService(t, name, i) ==
    /\ pc[t] = "idle"
    /\ NameExists(name)
    /\ LET sid == CHOOSE id \in DOMAIN services : services[id].name = name
       IN /\ req' = [req EXCEPT ![t] =
                        [op |-> "execute", sid |-> sid, name |-> name,
                         operation |-> i]]
          /\ loaded' = [loaded EXCEPT ![t] =
                           [LoadService(sid) EXCEPT !.ops = <<>>]]
    /\ pc' = [pc EXCEPT ![t] = "ex_op"]
    /\ UNCHANGED <<dbVars, gwVars, cfgVars, toolIds, srvUuid, rtVars>>
    /\ Silent

\* variant: _get_operation finds an operation whatever its name
ExecOperationFoundAlways(sid, i) == TRUE

\* self._get_operation(service.id, operation_name) finds a row
ExecOperationFound(sid, i) ==
    \E o \in operations : o.service_id = sid /\ o.idx = i

\* _get_operation returns None: ValueError, 404
ExecOperationUnknown(t) ==
    /\ pc[t] = "ex_op"
    /\ ~ExecOperationFound(loaded[t].id, req[t].operation)
    /\ ExecReturn(t, Response("execute", NULL, 404, "operation not found", <<>>))
    /\ UNCHANGED <<services, operations, gwVars, cfgVars, transVars, pureVars>>

\* the request bodies and input schemas for which _normalize_parameters
\* raises, and those for which it returns
NormalizeRaises ==
    {<<v, schema>> \in JsonValues \X Schemas :
        NormalizeParameters(v, schema).raised}
NormalizeReturns == (JsonValues \X Schemas) \ NormalizeRaises

\* _normalize_parameters raises ValueError: 404
ExecNormalizeError(t) ==
    /\ pc[t] = "ex_op"
    /\ ExecOperationFound(loaded[t].id, req[t].operation)
    /\ NormalizeRaises # {}
    /\ ExecReturn(t, Response("execute", NULL, 404, "parameters", <<>>))
    /\ UNCHANGED <<services, operations, gwVars, cfgVars, transVars, pureVars>>

\* the operation is found and its parameters are normalized
ExecGetOperation(t) ==
    /\ pc[t] = "ex_op"
    /\ ExecOperationFound(loaded[t].id, req[t].operation)
    /\ NormalizeReturns # {}
    /\ pc' = [pc EXCEPT ![t] = "ex_client"]
    /\ UNCHANGED <<dbVars, gwVars, cfgVars, req, loaded, toolIds, srvUuid,
                   rtVars>>
    /\ Silent

\* _get_zeep_client: if wsdl_url in self.zeep_clients: return the cached one
ExecCacheHit(t) ==
    /\ pc[t] = "ex_client"
    /\ WsdlUrl(loaded[t]) \in DOMAIN zeepClients
    /\ client' = [client EXCEPT ![t] = zeepClients[WsdlUrl(loaded[t])]]
    /\ pc' = [pc EXCEPT ![t] = "ex_call"]
    /\ UNCHANGED <<dbVars, gwVars, cfgVars, req, loaded, toolIds, srvUuid,
                   transVars, result, pureVars>>
    /\ Silent

\* _get_zeep_client: wsdl_url is not in self.zeep_clients
ExecCacheMiss(t) ==
    /\ pc[t] = "ex_client"
    /\ WsdlUrl(loaded[t]) \notin DOMAIN zeepClients
    /\ pc' = [pc EXCEPT ![t] = "ex_build"]
    /\ UNCHANGED <<dbVars, gwVars, cfgVars, req, loaded, toolIds, srvUuid,
                   rtVars>>
    /\ Silent

\* variant: the client that was built is not stored
StoreClientDropped(url, c) == zeepClients

\* self.zeep_clients[wsdl_url] = client
StoreClient(url, c) ==
    [u \in DOMAIN zeepClients \cup {url} |->
        IF u = url THEN c ELSE zeepClients[u]]

\* client = Client(wsdl=wsdl_url, transport=...): the WSDL is fetched through
\* the transport, whose cache writes the SQLite file; the client is stored
ExecBuildClient(t) ==
    /\ pc[t] = "ex_build"
    /\ FreeClientIds # {}
    /\ client' = [client EXCEPT ![t] = Fresh(FreeClientIds)]
    /\ zeepClients' = StoreClient(WsdlUrl(loaded[t]), Fresh(FreeClientIds))
    /\ cacheFile' = TRUE
    /\ pc' = [pc EXCEPT ![t] = "ex_call"]
    /\ UNCHANGED <<dbVars, gwVars, cfgVars, req, loaded, toolIds, srvUuid,
                   wsdlCache, result, pureVars>>
    /\ Silent

\* variant: the failed build leaves an entry without a client in the map
ExecBuildFailPoisons(t) ==
    /\ pc[t] = "ex_build"
    /\ zeepClients' = StoreClient(WsdlUrl(loaded[t]), NULL)
    /\ ExecReturn(t, Response("execute", NULL, 500, "wsdl", <<>>))
    /\ UNCHANGED <<services, operations, gwVars, cfgVars, cacheFile,
                   wsdlCache, pureVars>>

\* Client(...) raises (the WSDL cannot be fetched or parsed): 500
ExecBuildFail(t) ==
    /\ pc[t] = "ex_build"
    /\ ExecReturn(t, Response("execute", NULL, 500, "wsdl", <<>>))
    /\ UNCHANGED <<services, operations, gwVars, cfgVars, transVars, pureVars>>

\* getattr(client.service, operation_name) raises AttributeError:
\* ValueError, 404
ExecNoOperation(t) ==
    /\ pc[t] = "ex_call"
    /\ ExecReturn(t, Response("execute", NULL, 404, "operation not in wsdl", <<>>))
    /\ UNCHANGED <<services, operations, gwVars, cfgVars, transVars, pureVars>>

\* result = operation(**parameters): the upstream service answers;
\* json_result = self._serialize_zeep_result(result)
ExecCall(t, r) ==
    /\ pc[t] = "ex_call"
    /\ result' = [result EXCEPT ![t] = r]
    /\ pc' = [pc EXCEPT ![t] = "ex_access"]
    /\ UNCHANGED <<dbVars, gwVars, cfgVars, req, loaded, toolIds, srvUuid,
                   transVars, client, pureVars>>
    /\ Silent

\* Config.DEBUG with the default of FLASK_ENV
Debug == FALSE

\* jsonify({'error': str(e), 'detail': traceback.format_exc() if
\* Config.DEBUG else None}): str(e) of a SOAP fault is its reason
FaultBody ==
    [error |-> "fault reason",
     detail |-> IF Debug THEN "traceback" ELSE "None"]

\* operation(**parameters) raises (SOAP fault, transport error): 500
ExecFault(t) ==
    /\ pc[t] = "ex_call"
    /\ ExecReturn(t, Response("execute", NULL, 500, "fault", FaultBody))
    /\ UNCHANGED <<services, operations, gwVars, cfgVars, transVars, pureVars>>

\* variant: _update_cache_access stamps the access on the row of the
\* service as well
ExecUpdateCacheAccessStamps(t) ==
    /\ pc[t] = "ex_access"
    /\ wsdlCache' = wsdlCache \cup {WsdlUrl(loaded[t])}
    /\ services' = [id \in DOMAIN services |->
                       IF id = loaded[t].id
                       THEN [services[id] EXCEPT !.registered_at = 1]
                       ELSE services[id]]
    /\ operations' = operations
    /\ ExecReturn(t, Response("execute", NULL, 200, "", [result |-> result[t]]))
    /\ UNCHANGED <<gwVars, cfgVars, zeepClients, cacheFile, pureVars>>

\* _update_cache_access: the wsdl_cache row of the URL is written in a
\* session of its own; the result is returned, 200
ExecUpdateCacheAccess(t) ==
    /\ pc[t] = "ex_access"
    /\ wsdlCache' = wsdlCache \cup {WsdlUrl(loaded[t])}
    /\ ExecReturn(t, Response("execute", NULL, 200, "", [result |-> result[t]]))
    /\ UNCHANGED <<services, operations, gwVars, cfgVars, zeepClients,
                   cacheFile, pureVars>>

\* variant: the failure of _update_cache_access reaches the view, 500
ExecUpdateCacheAccessRaises(t) ==
    /\ pc[t] = "ex_access"
    /\ ExecReturn(t, Response("execute", NULL, 500, "cache access", <<>>))
    /\ UNCHANGED <<services, operations, gwVars, cfgVars, transVars, pureVars>>

\* _update_cache_access fails: rollback, logged; the result is returned, 200
ExecUpdateCacheAccessFail(t) ==
    /\ pc[t] = "ex_access"
    /\ ExecReturn(t, Response("execute", NULL, 200, "", [result |-> result[t]]))
    /\ UNCHANGED <<services, operations, gwVars, cfgVars, transVars, pureVars>>

(* ---------------------------------------------------------------------- *)
(* POST /admin/clear-cache                                                 *)
(* ---------------------------------------------------------------------- *)

\* soap_translator.clear_client_cache(): self.zeep_clients.clear()
ClearMemory(t) ==
    /\ pc[t] = "idle"
    /\ zeepClients' = <<>>
    /\ req' = [req EXCEPT ![t] = [NoRequest EXCEPT !.op = "clear"]]
    /\ pc' = [pc EXCEPT ![t] = "cc_file"]
    /\ UNCHANGED <<dbVars, gwVars, cfgVars, loaded, toolIds, srvUuid,
                   cacheFile, wsdlCache, client, result, pureVars>>
    /\ Silent

\* if hasattr(soap_translator.cache, '_db'): the file is removed if it
\* exists; the answer is success either way.  hasDb: the cache object of
\* the zeep library has an attribute of that name.
ClearFile(t, hasDb) ==
    /\ pc[t] = "cc_file"
    /\ cacheFile' = IF hasDb THEN FALSE ELSE cacheFile
    /\ ExecReturn(t, Response("clear-cache", NULL, 200, "", <<>>))
    /\ UNCHANGED <<services, operations, gwVars, cfgVars, zeepClients,
                   wsdlCache, pureVars>>

\* os.remove raises: except Exception, 500
ClearFileError(t) ==
    /\ pc[t] = "cc_file"
    /\ cacheFile
    /\ ExecReturn(t, Response("clear-cache", NULL, 500, "remove", <<>>))
    /\ UNCHANGED <<services, operations, gwVars, cfgVars, transVars, pureVars>>

(* ---------------------------------------------------------------------- *)
(* GET /health, GET /api/services/<id>/openapi.<format>, POST /login       *)
(* ---------------------------------------------------------------------- *)

\* db.execute('SELECT 1') succeeds, 200, or raises, 503
Health(t, ok) ==
    /\ pc[t] = "idle"
    /\ ExecReturn(t, IF ok
                     THEN Response("health", NULL, 200, "",
                                   [cached_clients |->
                                       Cardinality(DOMAIN zeepClients)])
                     ELSE Response("health", NULL, 503, "unhealthy", <<>>))
    /\ UNCHANGED <<services, operations, gwVars, cfgVars, transVars, pureVars>>

\* download_openapi: 404 without the row, the stored document as yaml or
\* json, 400 for any other format
DownloadOpenapi(t, sid, format) ==
    /\ pc[t] = "idle"
    /\ ExecReturn(t, IF sid \notin DOMAIN services
                     THEN Response("openapi", sid, 404, "not found", <<>>)
                     ELSE IF format \in {"yaml", "json"}
                          THEN Response("openapi", sid, 200, "", <<>>)
                          ELSE Response("openapi", sid, 400, "format", <<>>))
    /\ UNCHANGED <<services, operations, gwVars, cfgVars, transVars, pureVars>>

\* POST /login with the valid credentials: session['authenticated'] = True
Login ==
    /\ ~sessAuth
    /\ sessAuth' = TRUE
    /\ UNCHANGED <<dbVars, gwVars, localVars, sessGateway, rtVars>>
    /\ Silent

Next ==
    \/ \E t \in Threads :
        \/ ConvertNoSource(t)
        \/ ConvertWsdlError(t)
        \/ \E name \in Names :
              \/ ConvertConflict(t, name)
              \/ ConvertCheck(t, name)
        \/ ConvertFlush(t)
        \/ ConvertFlushIntegrity(t)
        \/ \E status \in {409, 500} : ConvertTxError(t, status)
        \/ \E n \in 0..MaxOps : ConvertCommit(t, n)
        \/ ConvertRefreshError(t)
        \/ \E auto \in BOOLEAN : ConvertRefresh(t, auto)
        \/ ConvertAutoRegister(t)
        \/ ConvertAutoAlready(t)
        \/ \E sid \in DOMAIN services \cup {UnknownId} :
              \/ RegisterNotConfigured(t, sid)
              \/ RegisterNotFound(t, sid)
              \/ RegisterAlready(t, sid)
              \/ RegisterLoad(t, sid)
              \/ UnregisterNotConfigured(t, sid)
              \/ UnregisterNotFound(t, sid)
              \/ UnregisterNotRegistered(t, sid)
              \/ UnregisterLoad(t, sid)
              \/ DeleteNotFound(t, sid)
              \/ DeleteLoad(t, sid)
              \/ GetService(t, sid)
        \/ RegisterTool(t)
        \/ RegisterToolFail(t)
        \/ RegisterServer(t)
        \/ RegisterServerFail(t)
        \/ RegisterCommit(t)
        \/ RegisterCommitError(t)
        \/ UnregisterDelete(t)
        \/ UnregisterDeleteFail(t)
        \/ UnregisterCommit(t)
        \/ UnregisterCommitError(t)
        \/ DeleteCommit(t)
        \/ DeleteCommitError(t)
        \/ ListServices(t)
    \/ SaveGatewayConfig
    \/ Logout

Spec == Init /\ [][Next]_vars

\* The runtime and admin surface over a catalog that convert fills and
\* delete empties, with no gateway configured.
RuntimeNext ==
    \/ \E t \in Threads :
        \/ ConvertNoSource(t)
        \/ ConvertWsdlError(t)
        \/ \E name \in Names :
              \/ ConvertConflict(t, name)
              \/ ConvertCheck(t, name)
        \/ ConvertFlush(t)
        \/ ConvertFlushIntegrity(t)
        \/ \E status \in {409, 500} : ConvertTxError(t, status)
        \/ \E n \in 0..MaxOps : ConvertCommit(t, n)
        \/ ConvertRefreshError(t)
        \/ \E auto \in BOOLEAN : ConvertRefresh(t, auto)
        \/ \E sid \in DOMAIN services \cup {UnknownId} :
              \/ DeleteNotFound(t, sid)
              \/ DeleteLoad(t, sid)
              \/ GetService(t, sid)
        \/ \E sid \in DOMAIN services \cup {UnknownId},
              format \in {"yaml", "json", "xml"} :
              DownloadOpenapi(t, sid, format)
        \/ DeleteCommit(t)
        \/ DeleteCommitError(t)
        \/ ListServices(t)
        \/ \E name \in Names \cup {UnknownName} : ExecServiceUnknown(t, name)
        \/ \E name \in Names, i \in 1..(MaxOps + 1) :
              ExecGetService(t, name, i)
        \/ ExecOperationUnknown(t)
        \/ ExecNormalizeError(t)
        \/ ExecGetOperation(t)
        \/ ExecCacheHit(t)
        \/ ExecCacheMiss(t)
        \/ ExecBuildClient(t)
        \/ ExecBuildFail(t)
        \/ ExecNoOperation(t)
        \/ \E r \in SoapResults : ExecCall(t, r)
        \/ ExecFault(t)
        \/ ExecUpdateCacheAccess(t)
        \/ ExecUpdateCacheAccessFail(t)
        \/ ClearMemory(t)
        \/ \E hasDb \in BOOLEAN : ClearFile(t, hasDb)
        \/ ClearFileError(t)
        \/ \E ok \in BOOLEAN : Health(t, ok)
    \/ Login
    \/ Logout

RuntimeSpec == Init /\ [][RuntimeNext]_vars

\* The runtime surface with its requests handled one after the other: a
\* request starts only when no other request is under way.
SequentialNext ==
    /\ RuntimeNext
    /\ \A t, u \in Threads : (pc'[t] # "idle" /\ pc'[u] # "idle") => t = u

SequentialSpec == Init /\ [][SequentialNext]_vars

\* _normalize_parameters applied to every value and schema of the bounds
NormalizeInit ==
    /\ ServerInit
    /\ norm \in {[NoCall EXCEPT !.parameters = v, !.input_schema = schema] :
                   v \in JsonValues, schema \in Schemas}
    /\ ser = NoSerialize
    /\ xsd = NoTranslate
    /\ conv = NoConvert

\* parameters = self._normalize_parameters(parameters, operation.input_schema)
NormalizeCall ==
    /\ norm.stage = "parameters"
    /\ ~norm.called
    /\ norm' = [norm EXCEPT
                    !.result = NormalizeParameters(norm.parameters,
                                                   norm.input_schema),
                    !.called = TRUE]
    /\ UNCHANGED <<serverVars, ser, xsd, conv>>

NormalizeNext == NormalizeCall

NormalizeSpec == NormalizeInit /\ [][NormalizeNext]_vars

\* execute_soap_operation from the JSON body of the request to the named
\* arguments of operation(**parameters), for every body and schema of the
\* bounds
DispatchInit ==
    /\ ServerInit
    /\ norm \in {[NoCall EXCEPT !.body = v, !.stage = "body",
                                !.input_schema = schema] :
                   v \in JsonValues, schema \in Schemas}
    /\ ser = NoSerialize
    /\ xsd = NoTranslate
    /\ conv = NoConvert

\* parameters = request.json or {}
RequestJson ==
    /\ norm.stage = "body"
    /\ norm' = [norm EXCEPT !.parameters = RequestParameters(norm.body),
                            !.stage = "parameters"]
    /\ UNCHANGED <<serverVars, ser, xsd, conv>>

DispatchNext ==
    \/ RequestJson
    \/ NormalizeCall

DispatchSpec == DispatchInit /\ [][DispatchNext]_vars

\* _serialize_zeep_result applied to every value of the bounds
SerializeInit ==
    /\ ServerInit
    /\ norm = NoCall
    /\ ser \in {[NoSerialize EXCEPT !.result = v] : v \in ZeepValues}
    /\ xsd = NoTranslate
    /\ conv = NoConvert

\* json_result = self._serialize_zeep_result(result)
SerializeCall ==
    /\ ~ser.called
    /\ ser' = [ser EXCEPT !.json = SerializeZeepResult(ser.result),
                          !.called = TRUE]
    /\ UNCHANGED <<serverVars, norm, xsd, conv>>

SerializeNext == SerializeCall

SerializeSpec == SerializeInit /\ [][SerializeNext]_vars

\* xsd_to_json_schema applied to the calls of the bounds: complex roots
\* named Root with every element list, complex roots with one element
\* that carry the name of a primitive or no name, the other types of the
\* graph as the root, and simple roots with every name of the table and
\* one other in the three notations
TranslateInit ==
    /\ ServerInit
    /\ norm = NoCall
    /\ ser = NoSerialize
    /\ conv = NoConvert
    /\ \/ \E es \in ElementLists(MaxElements) :
             xsd = Translate(XsdType(<<"Root">>, "complex", es, NULL), 1,
                             "", "local")
       \/ \E name \in {<<"date">>, NoName}, e \in Elements(1) :
             xsd = Translate(XsdType(name, "complex", <<e>>, NULL), 1,
                             "", "local")
       \/ \E root \in TypeIds \ {1} :
             xsd = Translate(NoTranslate.xsd_type, root, "", "local")
       \/ \E local \in DOMAIN XSD_TO_JSON_TYPE \cup {"custom"},
              form \in Forms :
             xsd = Translate(XsdType(TypeName(local, form), "simple", <<>>,
                                     NULL), 1, local, form)

\* return self.xsd_to_json_schema(element_type): visited starts empty
TranslateCall ==
    /\ ~xsd.called
    /\ xsd' = [xsd EXCEPT
                   !.schema = XsdToJsonSchema(TypeGraph(xsd.xsd_type),
                                              xsd.root, {}),
                   !.called = TRUE]
    /\ UNCHANGED <<serverVars, norm, ser, conv>>

TranslateNext == TranslateCall

TranslateSpec == TranslateInit /\ [][TranslateNext]_vars

\* the call returns: the handler is not suspended for ever
TranslateFairSpec == TranslateSpec /\ WF_vars(TranslateCall)

\* convert_wsdl on every WSDL of the bounds, from an upload and from a URL
EmitInit ==
    /\ ServerInit
    /\ norm = NoCall
    /\ ser = NoSerialize
    /\ xsd = NoTranslate
    /\ conv \in {ConvertRun(source, ports) :
                   source \in {"file", "url"}, ports \in WsdlPorts(MaxPorts)}

\* convert_wsdl from the source to its 200: the upload is saved to the
\* temporary file, the WSDL is converted, the service and its operations
\* are stored, the temporary file is removed
EmitCall ==
    /\ ~conv.called
    /\ LET wsdl_file == conv.source = "file"
           wsdl_path == IF wsdl_file THEN TempPath ELSE RemoteUrl
           saved == IF wsdl_file THEN conv.files \cup {TempPath} ELSE conv.files
           converted == Convert(wsdl_path, "A", conv.ports)
       IN  conv' = [conv EXCEPT
                       !.called = TRUE,
                       !.service = ServiceRecord(converted),
                       !.rows = OperationRecords(converted),
                       !.operations_count = Len(converted.operations),
                       !.files = CleanUp(saved, wsdl_file, wsdl_path)]
    /\ UNCHANGED <<serverVars, norm, ser, xsd>>

EmitNext == EmitCall

EmitSpec == EmitInit /\ [][EmitNext]_vars

(* ---------------------------------------------------------------------- *)
(* Properties                                                              *)
(* ---------------------------------------------------------------------- *)

FullyRegistered(row) ==
    row.registered /\ row.uuid # NULL /\ row.endpoint # NULL

FullyUnregistered(row) ==
    ~row.registered /\ row.uuid = NULL /\ row.endpoint = NULL

\* the step handled a whole request on the given route at once: no request
\* moved, and a response was sent
AnsweredAtOnce(route) == pc' = pc /\ response'.route = route

\* C1: in every reachable state every persisted service is fully registered
\* (gateway_registered with gateway_server_uuid and gateway_mcp_endpoint set)
\* or fully unregistered (not registered, both NULL), and no response of
\* GET /api/services or GET /api/services/<id> shows a service with
\* gateway_registered true and a NULL gateway_mcp_endpoint.
C1_BindingWhole ==
    /\ \A s \in DOMAIN services :
          FullyRegistered(services[s]) \/ FullyUnregistered(services[s])
    /\ (response.route \in {"get", "list"} /\ response.status = 200) =>
          \A d \in response.body.services :
              d.gateway_registered => d.gateway_mcp_endpoint # NULL

\* a listing shows a registered service
C1_Witness ==
    /\ response.route = "list"
    /\ \E d \in response.body.services :
          d.gateway_registered /\ d.gateway_server_uuid # NULL

\* the request of t ends in this step with a successful registration:
\* 200 of register_with_gateway, or gateway_registered in convert's answer
RegisterSucceeds(t) ==
    /\ pc[t] = "reg_commit" /\ pc'[t] = "idle"
    /\ \/ response'.route = "register" /\ response'.status = 200
       \/ response'.route = "convert" /\ response'.body.gateway_registered

\* the request of t ends in this step with the 200 of unregister_from_gateway
UnregisterSucceeds(t) ==
    /\ pc[t] = "ur_commit" /\ pc'[t] = "idle"
    /\ response'.route = "unregister" /\ response'.status = 200

\* C2: in the state right after a registration of S answers success, the
\* persisted S is registered with server uuid and endpoint both non-NULL;
\* right after an unregistration of S answers success, the persisted S is
\* unregistered with both NULL.
C2_AfterSuccess ==
    [][\A t \in Threads :
          /\ RegisterSucceeds(t) =>
                /\ loaded[t].id \in DOMAIN services'
                /\ FullyRegistered(services'[loaded[t].id])
          /\ UnregisterSucceeds(t) =>
                /\ loaded[t].id \in DOMAIN services'
                /\ FullyUnregistered(services'[loaded[t].id])]_vars

\* an unregistration has just answered 200 and its service is unregistered
C2_Witness ==
    /\ response.route = "unregister" /\ response.status = 200
    /\ response.target \in DOMAIN services
    /\ FullyUnregistered(services[response.target])

\* the request of t is a convert whose existence check has passed and whose
\* INSERT has not been flushed yet
ConvertChecked(t) == pc[t] = "cv_flush"

\* the request of t is a convert with its service row flushed, uncommitted
ConvertInTransaction(t) == pc[t] = "cv_tx"

\* C3: of two converts of the same name that run concurrently, at most one
\* holds the flushed row at a time and only while no committed service has
\* the name, so the catalog never holds two services of one name; the one
\* that reaches its INSERT after the other's commit ends with 409 and
\* writes nothing.
C3_OneConvertWins ==
    /\ [](\A s1, s2 \in DOMAIN services :
             services[s1].name = services[s2].name => s1 = s2)
    /\ [](\A t, u \in Threads :
             (t # u /\ ConvertInTransaction(t) /\ ConvertInTransaction(u))
                => req[t].name # req[u].name)
    /\ [](\A t \in Threads :
             ConvertInTransaction(t) => ~NameExists(req[t].name))
    /\ [][\A t \in Threads :
             (ConvertChecked(t) /\ NameExists(req[t].name) /\ pc'[t] # pc[t])
                => /\ response'.route = "convert" /\ response'.status = 409
                   /\ UNCHANGED <<services, operations>>]_vars

\* a convert passed its existence check, and before its INSERT the other
\* convert of the same name has committed
C3_Witness ==
    \E t \in Threads : ConvertChecked(t) /\ NameExists(req[t].name)

\* C4: no convert goes past its existence check while a service of its name
\* exists: it is answered 409 at once, and that answer leaves every service
\* row and every operation row as it was.
C4_NameConflict ==
    [][/\ \A t \in Threads :
             (pc[t] = "idle" /\ ConvertChecked(t)') => ~NameExists(req'[t].name)
       /\ (AnsweredAtOnce("convert") /\ response'.status = 409)
             => /\ NameExists(response'.body.service_name)
                /\ UNCHANGED <<services, operations, pendName>>]_vars

\* a convert has just been answered 409 for a name that is in the catalog
C4_Witness ==
    /\ response.route = "convert" /\ response.status = 409
    /\ response.error = "already exists"
    /\ NameExists(response.body.service_name)

AnsweredFor(route, s) ==
    AnsweredAtOnce(route) /\ response'.target = s /\ IsGatewayConfigured

C8_RegisterSerialized ==
    \A t, u \in Threads :
        (/\ t # u
         /\ req[t].op = "register" /\ req[u].op = "register"
         /\ req[t].sid = req[u].sid)
            => ~(srvUuid[t] # NULL /\ srvUuid[u] # NULL)

\* gateway_registered, gateway_server_uuid, gateway_mcp_endpoint of service
\* s and the gateway_tool_id of each of its operations
BindingOf(s) ==
    <<services[s].registered, services[s].uuid, services[s].endpoint,
      {<<o.idx, o.tool>> : o \in OperationsOf(s)}>>

\* the request of t leaves the gateway calls of register_service or
\* unregister_service with an answer
EndsInGatewayCall(t) ==
    pc[t] \in {"reg_gateway", "ur_gateway"} /\ pc'[t] = "idle"

\* C9: the binding of a persisted service changes only in the commit of a
\* register_service whose POST /servers has answered (to the uuid of that
\* server, which exists at the gateway) or in the commit of an
\* unregister_service whose DELETE has removed the server it had loaded;
\* a request that ends in a failed gateway call reports the failure and
\* leaves every service row and operation row as it was.
C9_CommitAfterGateway ==
    [][/\ \A s \in DOMAIN services \cap DOMAIN services' :
             (BindingOf(s)' # BindingOf(s)) =>
                \E t \in Threads :
                   /\ loaded[t].id = s /\ pc'[t] # pc[t]
                   /\ \/ /\ pc[t] = "reg_commit"
                         /\ srvUuid[t] # NULL /\ srvUuid[t] \in gwServers
                         /\ services'[s].uuid = srvUuid[t]
                      \/ /\ pc[t] = "ur_commit"
                         /\ loaded[t].uuid \notin gwServers
                         /\ FullyUnregistered(services'[s])
       /\ \A t \in Threads :
             EndsInGatewayCall(t) =>
                /\ UNCHANGED <<services, operations>>
                /\ IF req[t].op = "convert"
                   THEN response'.body.gateway_error
                   ELSE response'.status = 500]_vars

\* a register-gateway has just failed in a gateway call and its service is
\* unregistered
C9_Witness ==
    /\ response.route = "register" /\ response.status = 500
    /\ response.error \in {"tool", "server"}
    /\ response.target \in DOMAIN services
    /\ FullyUnregistered(services[response.target])

\* C10 (as stated): a register-gateway that fails in a gateway call after
\* it obtained tool ids answers GatewayRegistrationPartial with exactly
\* those ids, and its service is not marked registered by it.
C10_PartialSurfaced ==
    [][\A t \in Threads :
          (EndsInGatewayCall(t) /\ req[t].op = "register" /\ toolIds[t] # <<>>)
             => /\ response'.error = "GatewayRegistrationPartial"
                /\ "created_tool_ids" \in DOMAIN response'.body
                /\ response'.body.created_tool_ids = toolIds[t]
                /\ UNCHANGED <<services, operations>>]_vars

\* the request of t is a delete_service that ends in this step
DeleteEnds(t) == pc[t] = "dl_commit" /\ pc'[t] = "idle"

\* C11 (as stated): a delete of a registered service issues DELETE
\* /servers/{uuid} before it removes a row (it never goes from loading the
\* service straight to db.delete), and the delete that then answers success
\* has removed the service row and all of its operation rows.
C11_GatewayDeleteFirst ==
    [][\A t \in Threads :
          /\ (pc[t] = "idle" /\ pc'[t] = "dl_commit")
                => ~services[req'[t].sid].registered
          /\ (DeleteEnds(t) /\ response'.status = 200)
                => /\ loaded[t].id \notin DOMAIN services'
                   /\ \A o \in operations' : o.service_id # loaded[t].id]_vars

\* C12 (as stated): a delete of a service that it loaded registered and
\* whose server is still at the gateway (the DELETE failed, or none was
\* sent) does not answer success and leaves every service row and
\* operation row as it was.
C12_DeleteNeedsUnregister ==
    [][\A t \in Threads :
          (/\ DeleteEnds(t)
           /\ loaded[t].registered /\ loaded[t].uuid \in gwServers)
             => /\ response'.status # 200
                /\ UNCHANGED <<services, operations>>]_vars

\* C13: in every reachable state each operation row belongs to a service
\* row that exists, and the delete of a service that answers success leaves
\* neither the service row nor any operation row of that service.
C13_DeleteCascades ==
    /\ [](\A o \in operations : \E s \in DOMAIN services : o.service_id = s)
    /\ [][\A t \in Threads :
             (DeleteEnds(t) /\ response'.route = "delete"
                            /\ response'.status = 200)
                => /\ loaded[t].id \notin DOMAIN services'
                   /\ OperationsOf(loaded[t].id)' = {}]_vars

\* a delete has just answered success for a service that another request
\* had loaded with operations, and no row of it is left
C13_Witness ==
    /\ response.route = "delete" /\ response.status = 200
    /\ response.target \notin DOMAIN services
    /\ OperationsOf(response.target) = {}
    /\ \E u \in Threads :
          loaded[u].id = response.target /\ loaded[u].ops # <<>>

\* positions of a request inside execute_soap_operation and clear_cache
RuntimePcs == {"ex_op", "ex_client", "ex_build", "ex_call", "ex_access",
               "cc_file"}

\* the routes that read the catalog or work on the caches
RuntimeRoutes == {"execute", "get", "list", "openapi", "clear-cache", "health"}

\* the request of t takes a step of execute_soap_operation or clear_cache
RuntimeStep(t) ==
    pc'[t] # pc[t] /\ (pc[t] \in RuntimePcs \/ pc'[t] \in RuntimePcs)

\* C14: a service row or operation row changes only in the commit of a
\* convert, of a register or unregister, or of a delete; every step of
\* execute and clear-cache, and every answer of get, list, OpenAPI download
\* and health, whatever its status, leaves the two tables as they were.
C14_RuntimeLeavesCatalog ==
    [][/\ (services' # services \/ operations' # operations) =>
             \E t \in Threads :
                /\ pc[t] \in {"cv_tx", "reg_commit", "ur_commit", "dl_commit"}
                /\ pc'[t] # pc[t]
       /\ \A t \in Threads :
             RuntimeStep(t) => UNCHANGED <<services, operations>>
       /\ (pc' = pc /\ response'.route \in RuntimeRoutes)
             => UNCHANGED <<services, operations>>]_vars

\* an execute has just answered 200 after writing its wsdl_cache row, and
\* the service it ran on is in the catalog with its operation
C14_Witness ==
    /\ response.route = "execute" /\ response.status = 200
    /\ wsdlCache # {}
    /\ \E s \in DOMAIN services : OperationsOf(s) # {}

\* the routes of the admin and runtime surface that require_auth decorates
ProtectedRoutes ==
    {"list", "get", "delete", "openapi", "register", "unregister", "execute",
     "clear-cache"}

\* the requests of those routes that take more than one step
ProtectedOps == {"delete", "register", "unregister", "execute", "clear"}

\* C15 (as stated): while the session is not authenticated, every answer on
\* a protected route is 401, and no request of a protected route starts its
\* handler, changes a catalog row, calls the gateway or touches a cache.
C15_Unauthenticated401 ==
    [][~sessAuth =>
          /\ response'.route \in ProtectedRoutes => response'.status = 401
          /\ \A t \in Threads :
                (pc'[t] # pc[t] /\ (req[t].op \in ProtectedOps
                                     \/ req'[t].op \in ProtectedOps))
                   => /\ pc'[t] = "idle"
                      /\ UNCHANGED <<services, operations, gwServers,
                                     zeepClients, cacheFile>>]_vars

\* the request of t has missed the client cache and is building a client
Building(t) == pc[t] = "ex_build"

\* C16 (as stated): of the execute requests that have missed the cache for
\* one WSDL URL, at most one builds a client.
C16_SingleFlight ==
    \A t, u \in Threads :
        (t # u /\ Building(t) /\ Building(u))
           => WsdlUrl(loaded[t]) # WsdlUrl(loaded[u])

\* C17 (as stated): when clear-cache answers success the in-memory map is
\* empty and the SQLite cache file does not exist.
C17_BothCachesCleared ==
    [][(response'.route = "clear-cache" /\ response'.status = 200)
          => zeepClients' = <<>> /\ ~cacheFile']_vars

\* C18 (as stated): clear_client_cache excludes lookups and client creation:
\* the map is never emptied while a request is between its lookup and the
\* store of the client it builds, so no client built from a lookup made
\* before a clear is stored after it.
C18_ClearExclusive ==
    [][(\E u \in Threads : pc[u] = "idle" /\ pc'[u] = "cc_file")
          => \A t \in Threads : pc[t] \notin {"ex_client", "ex_build"}]_vars

\* the service has an operation row of that name
HasOperation(sid, i) == \E o \in OperationsOf(sid) : o.idx = i

\* C19: an execute goes past its service lookup only for a name that is in
\* the catalog and past its operation lookup only for an operation that
\* the service has; the one that does not is answered 404 in the step of
\* that lookup, before _get_zeep_client: it holds no client, no client is
\* built, no upstream call is made and the client cache stays as it was.
C19_UnknownIs404 ==
    [][/\ \A t \in Threads :
             /\ (pc[t] = "idle" /\ pc'[t] = "ex_op")
                   => NameExists(req'[t].name)
             /\ (pc[t] = "ex_op" /\ pc'[t] = "ex_client")
                   => HasOperation(loaded[t].id, req[t].operation)
             /\ (/\ pc[t] = "ex_op" /\ pc'[t] # pc[t]
                 /\ ~HasOperation(loaded[t].id, req[t].operation))
                   => /\ response'.route = "execute"
                      /\ response'.status = 404
                      /\ client[t] = NULL
                      /\ UNCHANGED <<zeepClients, cacheFile, wsdlCache>>
       /\ (pc' = pc /\ response'.route = "execute")
             => /\ response'.status = 404
                /\ UNCHANGED <<zeepClients, cacheFile, wsdlCache, client>>]_vars

\* an execute has just been answered 404 for an operation that its service,
\* which is in the catalog, does not have; no client is cached
C19_Witness ==
    /\ response.route = "execute" /\ response.status = 404
    /\ response.error = "operation not found"
    /\ services # <<>>
    /\ zeepClients = <<>>

\* the value is a str, a number, a bool or None
IsScalar(v) == v.type \in {"string", "number", "boolean", "null"}

\* C20: _normalize_parameters returns {p: v} for every scalar v and every
\* input schema whose only property is p, and returns every object as it
\* is, whatever the schema.
C20_Normalization ==
    norm.called =>
        /\ (/\ IsScalar(norm.parameters)
            /\ Cardinality(SchemaProperties(norm.input_schema)) = 1)
              => \A p \in SchemaProperties(norm.input_schema) :
                    norm.result =
                        Normalized(Json("object", "", {<<p, norm.parameters>>}))
        /\ norm.parameters.type = "object"
              => norm.result = Normalized(norm.parameters)

\* the scalar 0 has been wrapped for a schema whose only property is "p"
C20_Witness ==
    /\ norm.called
    /\ norm.parameters = Json("number", "0", {})
    /\ SchemaProperties(norm.input_schema) = {"p"}
    /\ norm.result.value.members = {<<"p", Json("number", "0", {})>>}

\* C21 (as stated): once execute_soap_operation has normalized the
\* parameters of a request whose body is a scalar (string, number or
\* boolean, the empty string, 0 and false included) for an input schema
\* with exactly one property p, the arguments of the SOAP call are {p: v}.
C21_ScalarDispatched ==
    (/\ norm.called
     /\ norm.body.type \in {"string", "number", "boolean"}
     /\ Cardinality(SchemaProperties(norm.input_schema)) = 1)
        => \A p \in SchemaProperties(norm.input_schema) :
              norm.result = Normalized(Json("object", "", {<<p, norm.body>>}))

\* C22 (as stated): a request whose parameters _normalize_parameters
\* rejects (a scalar for an input schema with several properties) is
\* answered 400, and no client has been obtained or built for it.
C22_ShapeErrorIs400 ==
    [][\A t \in Threads :
          (/\ pc[t] = "ex_op"
           /\ pc'[t] = "idle"
           /\ response'.error = "parameters")
              => /\ response'.status = 400
                 /\ client[t] = NULL
                 /\ zeepClients' = zeepClients]_vars

\* C23 (as stated): a SOAP fault raised by the operation call is answered
\* 502 with a body whose detail is the reason of the fault.
C23_FaultIs502 ==
    (response.route = "execute" /\ response.error = "fault")
        => /\ response.status = 502
           /\ response.body.detail = "fault reason"

\* C25: whether _update_cache_access writes its row or fails, the request
\* whose SOAP call has answered is answered 200 with the json_result of
\* that call: no error of the update reaches the caller.
C25_AccessUpdateBestEffort ==
    [][\A t \in Threads :
          (pc[t] = "ex_access" /\ pc'[t] # "ex_access")
              => /\ response'.route = "execute"
                 /\ response'.status = 200
                 /\ response'.body = [result |-> result[t]]]_vars

\* a call has been answered with its result "a" although the update of
\* wsdl_cache failed: the table holds no row
C25_Witness ==
    /\ response.route = "execute"
    /\ response.status = 200
    /\ response.body = [result |-> Json("string", "a", {})]
    /\ wsdlCache = {}

\* json holds result deserialized by the rules of the claim: null for
\* null, the scalar itself for a scalar, and for a list of n items a list
\* of n items of which the i-th holds the i-th item by the same rules
RECURSIVE Preserves(_, _)
Preserves(value, json) ==
    IF value.kind = "none" THEN json = Value("none", "", <<>>)
    ELSE IF value.kind \in {"str", "int", "float", "bool"} THEN json = value
    ELSE IF value.kind = "list"
    THEN /\ json.kind = "list"
         /\ Len(json.items) = Len(value.items)
         /\ \A i \in 1..Len(value.items) :
               Preserves(value.items[i].value, json.items[i].value)
    ELSE IF value.kind \in {"compound", "dict"}
    THEN /\ json.kind = "dict"
         /\ Len(json.items) = Len(value.items)
         /\ \A i \in 1..Len(value.items) :
               /\ json.items[i].key = value.items[i].key
               /\ Preserves(value.items[i].value, json.items[i].value)
    ELSE json.kind = "str"

\* C24: _serialize_zeep_result maps None to None, returns a scalar
\* unchanged, and turns a list of n items into a list of exactly n items in
\* the same order, each item serialized by the same rules, at every depth.
C24_StructurePreserved ==
    ser.called => Preserves(ser.result, ser.json)

\* a compound value whose field factors is a list of two different items
\* has been serialized: factors is a list of two, in the order received
C24_Witness ==
    /\ ser.called
    /\ ser.result.kind = "compound"
    /\ ser.result.items[2].value.items =
          <<Item("", Value("int", "7", <<>>)),
            Item("", Value("opaque", "2024-01-01", <<>>))>>
    /\ ser.json.items[2].key = "factors"
    /\ ser.json.items[2].value.items =
          <<Item("", Value("int", "7", <<>>)),
            Item("", Value("str", "2024-01-01", <<>>))>>

\* the type xsd_to_json_schema was called on, and its elements
RootType == TypeGraph(xsd.xsd_type)[xsd.root]

\* maxOccurs is unbounded or greater than 1
MaxOccursMany(e) == e.max_occurs = Unbounded \/ e.max_occurs > 1

\* minOccurs is at least 1, an absent minOccurs counting as 1
MinOccursAtLeastOne(e) == e.min_occurs = None \/ e.min_occurs >= 1

\* C26 (as stated): the translation of a complex type is an array at the
\* top level if and only if the type has exactly one element and that
\* element's maxOccurs is unbounded or greater than 1; with one element
\* of maxOccurs 1 it is an object.
C26_WrapperIff ==
    (xsd.called /\ RootType.kind = "complex") =>
        /\ (xsd.schema.type = "array" /\ Len(xsd.schema.items) = 1)
              <=> (/\ Len(RootType.elements) = 1
                   /\ MaxOccursMany(RootType.elements[1]))
        /\ (Len(RootType.elements) = 1 /\ RootType.elements[1].max_occurs = 1)
              => xsd.schema.type = "object"

\* C27: a complex type translated as an object has in required exactly
\* the names of its elements whose minOccurs is at least 1 (absent counts
\* as 1), each once and none with minOccurs 0, and has no required key
\* when there is no such element.
C27_RequiredDerivation ==
    (xsd.called /\ xsd.schema.has_properties) =>
        LET names == {RootType.elements[i].name :
                        i \in {j \in 1..Len(RootType.elements) :
                                 MinOccursAtLeastOne(RootType.elements[j])}}
        IN  /\ xsd.schema.has_required <=> names # {}
            /\ {xsd.schema.required[i] : i \in 1..Len(xsd.schema.required)}
                  = names
            /\ Len(xsd.schema.required) = Cardinality(names)

\* of two elements the first, whose minOccurs is absent, is required and
\* the second, with minOccurs 0, is not
C27_Witness ==
    /\ xsd.called
    /\ Len(RootType.elements) = 2
    /\ RootType.elements[1].min_occurs = None
    /\ RootType.elements[2].min_occurs = 0
    /\ xsd.schema.has_required
    /\ xsd.schema.required = <<"a">>

\* C28 (as stated): an element declared nillable is not in the required
\* list of the object of its type, whatever its minOccurs.
C28_NillableOptional ==
    (xsd.called /\ xsd.schema.has_properties) =>
        \A i \in 1..Len(RootType.elements) :
            RootType.elements[i].nillable =>
                \A j \in 1..Len(xsd.schema.required) :
                    xsd.schema.required[j] # RootType.elements[i].name

\* the answer to the re-entry of the type of that name: an object with
\* the description and nothing below it
CircularStub(name) ==
    [type |-> "object", format |-> "",
     description |-> <<"Circular reference to ">>
                       \o (IF name = NoName THEN <<"None">> ELSE name),
     items |-> <<>>, has_properties |-> FALSE, properties |-> <<>>,
     has_required |-> FALSE, required |-> <<>>]

\* schema, the translation of the element e of the root type, cuts the
\* cycles through e: the root itself (type 1) is answered by the stub,
\* and so is the element next of type 2, whose type is the root
CutsCycle(e, schema) ==
    LET inner == IF MaxOccursMany(e) THEN schema.items[1] ELSE schema
    IN  /\ e.type = 1 => inner = CircularStub(RootType.name)
        /\ e.type = 2 =>
              inner.properties[1].schema = CircularStub(RootType.name)

\* the translation of the root type cuts every cycle through the root
CyclesCut ==
    (/\ xsd.root = 1
     /\ RootType.kind = "complex"
     /\ RootType.name \in {<<"Root">>, NoName}) =>
        IF xsd.schema.type = "array"
        THEN CutsCycle([RootType.elements[1] EXCEPT !.max_occurs = 1],
                       xsd.schema.items[1])
        ELSE \A i \in 1..Len(RootType.elements) :
                CutsCycle(RootType.elements[i],
                          xsd.schema.properties[i].schema)

\* C29: every call of xsd_to_json_schema returns, on type graphs with a
\* type whose element has the type itself and with a cycle of two complex
\* types as well, and where the type is entered again on the current path
\* the result is {type: object, description: "Circular reference to
\* <name>"} with nothing below it.
C29_CyclesTerminate == <>(xsd.called /\ CyclesCut)

\* a root with an element of its own type and an element of the type that
\* refers back to the root has been translated
C29_Witness ==
    /\ xsd.called
    /\ Len(RootType.elements) = 2
    /\ RootType.elements[1].type = 1
    /\ RootType.elements[1].max_occurs = 1
    /\ RootType.elements[2].type = 2
    /\ RootType.elements[2].max_occurs = 1
    /\ xsd.schema.properties[1].schema = CircularStub(<<"Root">>)
    /\ xsd.schema.properties[2].schema.properties[1].schema
          = CircularStub(<<"Root">>)

\* the JSON type the mapping table gives for a primitive
JsonTypeOf(local) ==
    CASE local \in {"string", "anyURI", "base64Binary", "hexBinary", "date",
                    "dateTime", "time"} -> "string"
      [] local = "boolean" -> "boolean"
      [] local \in {"int", "integer", "long", "short", "byte", "unsignedLong",
                    "unsignedInt", "unsignedShort", "unsignedByte",
                    "positiveInteger", "nonNegativeInteger",
                    "negativeInteger", "nonPositiveInteger"} -> "integer"
      [] local \in {"decimal", "float", "double"} -> "number"
      [] OTHER -> "object"

\* C30: a type whose name is a primitive of the table, written as local,
\* {uri}local or prefix:local, is translated to the JSON type of the
\* table, with the local name as format for date, dateTime and time and
\* without format otherwise.
C30_PrimitiveMapping ==
    (xsd.called /\ RootType.kind = "simple" /\ xsd.local # "custom"
        /\ xsd.local # "") =>
        xsd.schema =
            [TypeOnly(JsonTypeOf(xsd.local)) EXCEPT
                !.format = IF xsd.local \in {"date", "dateTime", "time"}
                           THEN xsd.local ELSE ""]

\* xs:dateTime has been translated to a string of format dateTime
C30_Witness ==
    /\ xsd.called
    /\ RootType.name = <<"xs", ":", "dateTime">>
    /\ xsd.schema.type = "string"
    /\ xsd.schema.format = "dateTime"

InnerSchema(e, schema) == IF MaxOccursMany(e) THEN schema.items[1] ELSE schema

\* C39: the circular-reference marker stands only where a type is its own
\* ancestor on the path of the translation: an element whose type is not
\* the root is translated without the marker, and a complex type that two
\* sibling elements share is expanded in full under both.
C39_MarkerOnlyOnCycle ==
    (xsd.called /\ xsd.root = 1 /\ xsd.schema.has_properties) =>
        \A i \in 1..Len(RootType.elements) :
            LET e == RootType.elements[i]
                inner == InnerSchema(e, xsd.schema.properties[i].schema)
            IN  /\ (inner.description # <<>>) <=> (e.type = 1)
                /\ e.type = 2 =>
                      /\ inner.has_properties
                      /\ Len(inner.properties) = 2
                      /\ inner.properties[1].schema
                            = CircularStub(RootType.name)
                      /\ inner.properties[2].schema.type = "string"
                /\ e.type = 4 =>
                      /\ inner.type = "array"
                      /\ inner.items[1].type = "string"

\* two sibling elements of the root have the complex type Node: it is
\* expanded under both, and the marker stands only at Node's element whose
\* type is the root
C39_Witness ==
    /\ xsd.called
    /\ xsd.root = 1
    /\ xsd.schema.has_properties
    /\ Len(RootType.elements) = 2
    /\ RootType.elements[1].type = 2
    /\ RootType.elements[1].max_occurs = 1
    /\ RootType.elements[2].type = 2
    /\ RootType.elements[2].max_occurs = 1
    /\ xsd.schema.properties[1].schema.has_properties
    /\ xsd.schema.properties[2].schema = xsd.schema.properties[1].schema
    /\ xsd.schema.properties[2].schema.properties[1].schema.description
          = <<"Circular reference to ", "Root">>

\* the tool ids a register_service has collected so far are those of the
\* first operations of the service it loaded, in their order
ToolsInOrder(t) ==
    /\ Len(toolIds[t]) <= Len(loaded[t].ops)
    /\ \A i \in DOMAIN toolIds[t] : toolIds[t][i] # NULL

C34_BuildOncePerClear ==
    [][\A t \in Threads :
          LET url == WsdlUrl(loaded[t])
          IN  /\ (pc[t] = "ex_client" /\ pc'[t] # pc[t]) =>
                    IF url \in DOMAIN zeepClients
                    THEN /\ pc'[t] = "ex_call"
                         /\ client'[t] = zeepClients[url]
                         /\ zeepClients' = zeepClients
                    ELSE /\ pc'[t] = "ex_build"
                         /\ zeepClients' = zeepClients
              /\ (pc[t] = "ex_build" /\ pc'[t] = "ex_call") =>
                    /\ url \notin DOMAIN zeepClients
                    /\ DOMAIN zeepClients' = DOMAIN zeepClients \cup {url}
                    /\ zeepClients'[url] = client'[t]
                    /\ \A u \in DOMAIN zeepClients :
                          zeepClients'[u] = zeepClients[u]
              /\ (\E u \in DOMAIN zeepClients :
                     u \notin DOMAIN zeepClients'
                        \/ zeepClients'[u] # zeepClients[u]) =>
                    /\ zeepClients' = <<>>
                    /\ \E c \in Threads : pc[c] = "idle" /\ pc'[c] = "cc_file"
              /\ (pc[t] = "idle" /\ pc'[t] = "cc_file") => zeepClients' = <<>>]_vars

\* an execute of a URL that an earlier execute has completed on holds the
\* client that the map has for the URL
C34_Witness ==
    \E t \in Threads :
        /\ pc[t] = "ex_call"
        /\ WsdlUrl(loaded[t]) \in wsdlCache
        /\ WsdlUrl(loaded[t]) \in DOMAIN zeepClients
        /\ client[t] = zeepClients[WsdlUrl(loaded[t])]

\* C38: a build that raises answers 500 and leaves the map of clients as it
\* was; an entry is written to the map only by the request whose build has
\* completed, under its URL and with the client it built; and a request
\* whose URL has no entry goes on to build, whatever happened to earlier
\* builds of that URL.
C38_FailedBuildLeavesCache ==
    [][\A t \in Threads :
          LET url == WsdlUrl(loaded[t])
          IN  /\ (pc[t] = "ex_build" /\ pc'[t] = "idle") =>
                    /\ zeepClients' = zeepClients
                    /\ response'.status = 500
              /\ (pc[t] = "ex_client" /\ pc'[t] # pc[t]
                  /\ url \notin DOMAIN zeepClients) => pc'[t] = "ex_build"
              /\ \A u \in DOMAIN zeepClients' :
                    (u \notin DOMAIN zeepClients
                        \/ zeepClients'[u] # zeepClients[u]) =>
                       \E b \in Threads :
                          /\ pc[b] = "ex_build" /\ pc'[b] = "ex_call"
                          /\ u = WsdlUrl(loaded[b])
                          /\ zeepClients'[u] = client'[b]
                          /\ client'[b] # NULL]_vars

\* an execute has just been answered 500 for a build that raised, and the
\* map has no client for a service of the catalog
C38_Witness ==
    /\ response.route = "execute" /\ response.status = 500
    /\ response.error = "wsdl"
    /\ \E sid \in DOMAIN services :
          WsdlUrl(services[sid]) \notin DOMAIN zeepClients

\* the services whose row refers to the gateway server u
ReferringServices(u) == {s \in DOMAIN services : services[s].uuid = u}

\* C36 (as stated): when no request is under way, every server that was
\* created at the gateway and has not been deleted there is the
\* gateway_server_uuid of exactly one service of the catalog.
C36_NoOrphanedServers ==
    (\A t \in Threads : pc[t] = "idle") =>
        \A u \in gwServers : Cardinality(ReferringServices(u)) = 1

\* the service of a convert response is in the catalog, unregistered, and
\* none of its operations has a tool id
PersistedUnregistered(sid) ==
    /\ sid \in DOMAIN services
    /\ FullyUnregistered(services[sid])
    /\ \A o \in OperationsOf(sid) : o.tool = NULL

\* C40 (as stated): when a convert answers 200 with a gateway_error, its
\* service and operations are persisted and unregistered without tool ids,
\* and the gateway_registered of every convert response equals the
\* gateway_registered of the service row at the time of the response.
C40_ResponseEqualsPersisted ==
    (response.route = "convert" /\ response.status = 200) =>
        LET sid == response.body.service_id
        IN  /\ response.body.gateway_error => PersistedUnregistered(sid)
            /\ sid \in DOMAIN services
            /\ response.body.gateway_registered = services[sid].registered

\* the convert of t answers 200 in this step
ConvertAnswers(t) ==
    /\ req[t].op = "convert" /\ pc[t] # "idle" /\ pc'[t] = "idle"
    /\ response'.route = "convert" /\ response'.status = 200

\* C40: a convert whose auto-registration fails answers 200 with
\* gateway_error and gateway_registered false, and the step leaves every
\* service row and operation row as it was (the service that was created
\* stays, nothing of the registration is persisted); a convert answers
\* gateway_registered true only in the step that commits the registration
\* of its service; and when the row of the service is still as the
\* registration attempt loaded it, the service is persisted unregistered
\* without tool ids, as the response says.
C40_FailureKeepsService ==
    [][\A t \in Threads, sid \in 1..MaxServices :
          (ConvertAnswers(t) /\ sid = req[t].sid) =>
             LET body == response'.body
             IN  /\ body.service_id = sid
                 /\ body.gateway_error =>
                       /\ ~body.gateway_registered
                       /\ UNCHANGED <<services, operations>>
                 /\ body.gateway_registered =>
                       /\ ~body.gateway_error
                       /\ sid \in DOMAIN services'
                       /\ FullyRegistered(services'[sid])
                       /\ services'[sid].uuid = srvUuid[t]
                 /\ ~body.gateway_registered =>
                       UNCHANGED <<services, operations>>
                 /\ (body.gateway_error /\ pc[t] \in {"reg_gateway", "reg_commit"}
                     /\ sid \in DOMAIN services
                     /\ LoadService(sid) = loaded[t]) =>
                       /\ PersistedUnregistered(sid)'
                       /\ body.gateway_registered = services'[sid].registered]_vars

\* a convert has answered 200 with a gateway_error after its server was
\* created, and its service and operation are persisted unregistered
C40_Witness ==
    /\ response.route = "convert" /\ response.status = 200
    /\ response.body.gateway_error /\ ~response.body.gateway_registered
    /\ PersistedUnregistered(response.body.service_id)
    /\ OperationsOf(response.body.service_id) # {}
    /\ gwServers # {}

\* the path of the stored OpenAPI document for an operation row
PathOfRow(row) == Path(conv.service.name, row.name)

\* C32 (as stated): for every operation row of a converted service, the
\* request-body schema of its POST path in the stored OpenAPI document is
\* the row's input_schema and the schema of the 200 response is the row's
\* output_schema.
C32_PathSchemasAreRowSchemas ==
    conv.called =>
        \A i \in DOMAIN conv.rows :
            LET row == conv.rows[i]
                paths == conv.service.openapi_spec.paths
            IN  /\ PathOfRow(row) \in DOMAIN paths
                /\ paths[PathOfRow(row)].request_schema = row.input_schema
                /\ paths[PathOfRow(row)].response_schema = row.output_schema

\* C35 (as stated): the POST paths of the stored OpenAPI document and the
\* operation rows of the service correspond one to one: every row has its
\* path, no two rows have the same name, and operations_count is the
\* number of paths.
C35_PathsMatchRows ==
    conv.called =>
        LET paths == conv.service.openapi_spec.paths
        IN  /\ \A i \in DOMAIN conv.rows : PathOfRow(conv.rows[i]) \in DOMAIN paths
            /\ \A i, j \in DOMAIN conv.rows :
                  conv.rows[i].name = conv.rows[j].name => i = j
            /\ Cardinality(DOMAIN paths) = Len(conv.rows)
            /\ conv.operations_count = Cardinality(DOMAIN paths)

\* the source that a stored wsdl_url names can be read: the remote URL, or
\* a file that exists
Readable(wsdl_url) == wsdl_url = RemoteUrl \/ wsdl_url \in conv.files

\* C37 (as stated): after a convert that succeeded, the wsdl_url stored
\* with the service names a WSDL source that can be read.
C37_StoredSourceReadable ==
    conv.called => Readable(conv.service.wsdl_url)

====
